---- MODULE Spec2Model ----
(***************************************************************************)
(* A model of the analytics kernel of the multiplex network system:        *)
(*   - balance/signed_network.py   (SignedNetworkAnalyzer and the helper   *)
(*     create_signed_graph_from_edges),                                    *)
(*   - advanced/institutional_metrics.py (AdvancedInstitutionalMetrics),   *)
(*   - centrality/multiplex_centrality.py (MultiplexCentralityAnalyzer).   *)
(*                                                                         *)
(* Node identifiers are the integers 1..n.  list(graph.nodes()) is the     *)
(* ascending sequence of the identifiers.  An undirected edge is the set   *)
(* of its endpoints, so that a self-loop at u is {u}: networkx's Graph     *)
(* keeps one edge per unordered pair and admits self-loops.                *)
(***************************************************************************)
EXTENDS Integers, Sequences, FiniteSets, TLC

VARIABLES graph, digraph, layers, all_nodes, pc, result, cancelled, frame

vars == <<graph, digraph, layers, all_nodes, pc, result, cancelled, frame>>

(***************************************************************************)
(* Bounds of the model.                                                    *)
(***************************************************************************)
MaxNodes == 3

MaxEdges == 4

BuildNodes == 2

MaxBuildEdges == 2

MaxDiNodes == 3

MaxDiEdges == 4

(***************************************************************************)
(* Generic helpers.                                                        *)
(***************************************************************************)
Abs(x) == IF x < 0 THEN -x ELSE x

RECURSIVE Pow2(_)
Pow2(k) == IF k = 0 THEN 1 ELSE 2 * Pow2(k - 1)

RECURSIVE SumOf(_, _)
SumOf(S, f) ==
  IF S = {} THEN 0
  ELSE LET x == CHOOSE y \in S : TRUE IN f[x] + SumOf(S \ {x}, f)

(***************************************************************************)
(* The signed undirected graph (networkx.Graph with edge attribute dicts). *)
(* data[e] is the attribute dict of edge e: has says whether the key       *)
(* 'sign' is present, sign is its value.                                   *)
(***************************************************************************)
EdgeKeys(V) == {{u, v} : u \in V, v \in V}

Attr(s) == [has |-> TRUE, sign |-> s]

NoSignAttr == [has |-> FALSE, sign |-> 0]

EmptyGraph == [nodes |-> {}, data |-> <<>>]

Edges(g) == DOMAIN g.data

Sign(g, u, v) == g.data[{u, v}].sign

HasEdge(g, u, v) == {u, v} \in Edges(g)

NumberOfNodes(g) == Cardinality(g.nodes)

\* list(graph.nodes()), 0-based: NodeAt(g, i) is nodes[i].
NodeAt(g, i) == CHOOSE u \in g.nodes : Cardinality({w \in g.nodes : w < u}) = i

\* The well-formed signed graphs on the nodes 1..n, n <= MaxNodes, with at most
\* MaxEdges edges, every edge signed +1 or -1.
SignedGraphs ==
  UNION { UNION { {[nodes |-> 1..n, data |-> d] : d \in [E -> {Attr(1), Attr(-1)}]}
                  : E \in {X \in SUBSET EdgeKeys(1..n) : Cardinality(X) <= MaxEdges} }
          : n \in 0..MaxNodes }

(***************************************************************************)
(* SignedNetworkAnalyzer._validate_graph                                   *)
(***************************************************************************)
\* Mutant of ValidateGraph: only the presence of 'sign' is checked.
ValidateGraphPresenceOnly(g) ==
  IF \E e \in Edges(g) : ~g.data[e].has THEN "ValueError" ELSE "ok"

ValidateGraph(g) ==
  IF \E e \in Edges(g) : ~g.data[e].has \/ g.data[e].sign \notin {-1, 1}
  THEN "ValueError"
  ELSE "ok"

(***************************************************************************)
(* SignedNetworkAnalyzer._count_frustrated_edges                           *)
(***************************************************************************)
SamePartition(e, partition) ==
  \A u \in e : \A v \in e : (u \in partition) = (v \in partition)

\* Mutant of CountFrustratedEdges: a positive edge (u, v), u before v, counts
\* as crossing only when u is in the partition and v is not.
CountFrustratedEdgesOneSided(g, partition) ==
  Cardinality({e \in Edges(g) :
                 \/ /\ g.data[e].sign = 1
                    /\ \E u \in e : \E v \in e :
                         u < v /\ u \in partition /\ v \notin partition
                 \/ g.data[e].sign = -1 /\ SamePartition(e, partition)})

\* Mutant of CountFrustratedEdges: the loop runs over the adjacency, which holds
\* every edge but a self-loop in both directions.
CountFrustratedEdgesBothDirections(g, partition) ==
  LET frustrated == {e \in Edges(g) :
                       \/ g.data[e].sign = 1 /\ ~SamePartition(e, partition)
                       \/ g.data[e].sign = -1 /\ SamePartition(e, partition)}
  IN SumOf(frustrated, [e \in frustrated |-> Cardinality(e)])

CountFrustratedEdges(g, partition) ==
  Cardinality({e \in Edges(g) :
                 \/ g.data[e].sign = 1 /\ ~SamePartition(e, partition)
                 \/ g.data[e].sign = -1 /\ SamePartition(e, partition)})

(***************************************************************************)
(* SignedNetworkAnalyzer._compute_frustration_exact                        *)
(***************************************************************************)
\* float('inf'), the initial min_frustration.
Infinity == -1

MinFrustration(a, b) == IF a = Infinity THEN b ELSE IF b < a THEN b ELSE a

\* mask & (1 << i)
BitSet(mask, i) == (mask \div Pow2(i)) % 2 = 1

MaskPartition(g, mask) ==
  {NodeAt(g, i) : i \in {j \in 0..(NumberOfNodes(g) - 1) : BitSet(mask, j)}}

\* Mutant of ExactLoop: the loop runs over range(n) instead of range(2 ** n).
RECURSIVE ExactLoopShort(_, _, _)
ExactLoopShort(g, mask, min_frustration) ==
  IF mask >= NumberOfNodes(g) THEN min_frustration
  ELSE ExactLoopShort(g, mask + 1,
                      MinFrustration(min_frustration,
                                     CountFrustratedEdges(g, MaskPartition(g, mask))))

RECURSIVE ExactLoop(_, _, _)
ExactLoop(g, mask, min_frustration) ==
  IF mask >= Pow2(NumberOfNodes(g)) THEN min_frustration
  ELSE ExactLoop(g, mask + 1,
                 MinFrustration(min_frustration,
                                CountFrustratedEdges(g, MaskPartition(g, mask))))

ComputeFrustrationExact(g) == ExactLoop(g, 0, Infinity)

(***************************************************************************)
(* The spectral bipartition (find_frustrated_edges, lines 199-216; the     *)
(* same steps in _compute_frustration_approximate and                      *)
(* compute_structural_balance): signed adjacency A, D = diag(sum |A|),     *)
(* L = D - A, numpy.linalg.eigh(L), the column of index 1, its sign.       *)
(***************************************************************************)
SignedAdjacency(g, i, j) == IF HasEdge(g, i, j) THEN Sign(g, i, j) ELSE 0

\* D[i, i] = sum_j |A[i, j]|: one for every edge at i, a self-loop included.
DegreeDiagonal(g, i) == Cardinality({e \in Edges(g) : i \in e})

\* L = D - A
SignedLaplacian(g, i, j) ==
  (IF i = j THEN DegreeDiagonal(g, i) ELSE 0) - SignedAdjacency(g, i, j)

\* Determinant of the rows R and columns C of L - x*I, expanded along the
\* first row.
RECURSIVE Det(_, _, _, _)
Det(g, x, R, C) ==
  IF R = {} THEN 1
  ELSE LET r == CHOOSE y \in R : \A z \in R : y <= z
       IN SumOf(C, [c \in C |->
                      (IF Cardinality({d \in C : d < c}) % 2 = 0 THEN 1 ELSE -1)
                      * (SignedLaplacian(g, r, c) - (IF r = c THEN x ELSE 0))
                      * Det(g, x, R \ {r}, C \ {c})])

\* Coefficient of y^(n-k) in det(y*I - (L - x*I)): (-1)^k times the sum of the
\* principal minors of order k of L - x*I.
CharCoefficient(g, x, k) ==
  LET minors == {S \in SUBSET g.nodes : Cardinality(S) = k}
  IN (IF k % 2 = 0 THEN 1 ELSE -1) * SumOf(minors, [S \in minors |-> Det(g, x, S, S)])

\* The coefficients of order k..n, as a tuple.
RECURSIVE CharCoefficients(_, _, _)
CharCoefficients(g, x, k) ==
  IF k > NumberOfNodes(g) THEN <<>>
  ELSE <<CharCoefficient(g, x, k)>> \o CharCoefficients(g, x, k + 1)

\* x is the eigenvalue of index 1 in eigh's ascending order.  The eigenvalues
\* of a symmetric matrix are real, so Descartes' rule of signs is exact: the
\* eigenvalues above x are the sign changes of the coefficients c, the
\* eigenvalues equal to x the trailing zeros of c.
IsSecondSmallestEigenvalue(g, x) ==
  LET n == NumberOfNodes(g)
      c == CharCoefficients(g, x, 0)
      above == Cardinality({p \in (1..(n + 1)) \X (1..(n + 1)) :
                              /\ p[1] < p[2]
                              /\ c[p[1]] * c[p[2]] < 0
                              /\ \A k \in (p[1] + 1)..(p[2] - 1) : c[k] = 0})
      equal == Cardinality({j \in 2..(n + 1) : \A k \in j..(n + 1) : c[k] = 0})
      below == n - above - equal
  IN below <= 1 /\ below + equal >= 2

\* Entries of the integer eigenvectors that represent eigh's column.
MaxEntry == 2

\* The integers that are the second-smallest eigenvalue of L: one at most.  By
\* Gershgorin's circles the eigenvalues of L are at most 2n + 2.
SecondEigenvalues(g) ==
  {x \in 0..(2 * NumberOfNodes(g) + 2) : IsSecondSmallestEigenvalue(g, x)}

\* The vectors that can be (a positive multiple of) eigenvectors[:, 1]: the
\* eigenvectors of the second-smallest eigenvalue.  eigh fixes neither the sign
\* of the column nor, in an eigenspace of dimension two or more, its direction.
FiedlerVectors(g) ==
  LET V == g.nodes
  IN IF SecondEigenvalues(g) = {} THEN {}
     ELSE LET x == CHOOSE y \in SecondEigenvalues(g) : TRUE
          IN {f \in [V -> (-MaxEntry)..MaxEntry] :
                /\ \E i \in V : f[i] # 0
                /\ \A i \in V :
                     SumOf(V, [j \in V |-> SignedLaplacian(g, i, j) * f[j]]) = x * f[i]}

\* partition = {nodes[i] : fiedler[i] >= 0}.  An entry that is 0 in exact
\* arithmetic comes out of the solver as a rounding residue of either sign.
\* When the second eigenvalue is not an integer its eigenvector has no integer
\* representative, and the sign pattern is left open.
FiedlerPartitions(g) ==
  LET exact == UNION {{P \in SUBSET g.nodes :
                          /\ {i \in g.nodes : f[i] > 0} \subseteq P
                          /\ P \subseteq {i \in g.nodes : f[i] >= 0}}
                       : f \in FiedlerVectors(g)}
  IN IF exact = {} THEN SUBSET g.nodes ELSE exact

\* What lines 204-216 produce: eigenvectors[:, 1] does not exist for a matrix of
\* fewer than two columns (IndexError); eigh of the 0x0 matrix raises
\* LinAlgError on numpy builds that reject empty arrays.
SpectralOutcomes(g) ==
  IF NumberOfNodes(g) = 0
    THEN {[error |-> "IndexError", partition |-> {}],
          [error |-> "LinAlgError", partition |-> {}]}
  ELSE IF NumberOfNodes(g) = 1
    THEN {[error |-> "IndexError", partition |-> {}]}
  ELSE {[error |-> "", partition |-> P] : P \in FiedlerPartitions(g)}

FrustratedEdgesOf(g, partition) ==
  {e \in Edges(g) :
     \/ g.data[e].sign = 1 /\ ~SamePartition(e, partition)
     \/ g.data[e].sign = -1 /\ SamePartition(e, partition)}

(***************************************************************************)
(* SignedNetworkAnalyzer.compute_frustration_index: the set of values the  *)
(* call can return (one value unless the spectral branch is taken).        *)
(***************************************************************************)
ExactLimit == 20

ComputeFrustrationIndex(g) ==
  IF NumberOfNodes(g) = 0 THEN {0}
  ELSE IF NumberOfNodes(g) <= ExactLimit THEN {ComputeFrustrationExact(g)}
  ELSE {CountFrustratedEdges(g, P) : P \in FiedlerPartitions(g)}

(***************************************************************************)
(* SignedNetworkAnalyzer.analyze_triangles                                 *)
(***************************************************************************)
Neighbors(g, node) == {v \in g.nodes : HasEdge(g, node, v)}

\* One entry of the list `triangles` per node and per pair n1, n2 of its
\* neighbours that are joined by an edge.
TriangleEntries(g) ==
  {t \in g.nodes \X (SUBSET g.nodes) :
     /\ Cardinality(t[2]) = 2
     /\ t[2] \subseteq Neighbors(g, t[1])
     /\ t[2] \in Edges(g)}

\* neg_count of the entry's edges_signs.
NegCount(g, t) ==
  LET n1 == CHOOSE u \in t[2] : TRUE
      n2 == CHOOSE u \in t[2] : u # n1
  IN (IF Sign(g, t[1], n1) = -1 THEN 1 ELSE 0)
     + (IF Sign(g, t[1], n2) = -1 THEN 1 ELSE 0)
     + (IF Sign(g, n1, n2) = -1 THEN 1 ELSE 0)

\* A ratio a / b is kept as the pair <<a, b>>.
AnalyzeTriangles(g) ==
  LET triangles == TriangleEntries(g)
      total == Cardinality(triangles) \div 3
      frustrated_count == Cardinality({t \in triangles : NegCount(g, t) \in {1, 3}})
      frustrated == frustrated_count \div 3
      balanced == total - frustrated
  IN [total_triangles |-> total,
      balanced_triangles |-> balanced,
      frustrated_triangles |-> frustrated,
      balance_ratio |-> IF total > 0 THEN <<balanced, total>> ELSE <<1, 1>>]

(***************************************************************************)
(* The analyzer's query methods as steps.  pc = "ready": an analyzer       *)
(* exists around `graph`.                                                  *)
(***************************************************************************)
NoResult == [op |-> "none", error |-> ""]

\* No call is in progress: there are no locals.
NoFrame == [op |-> "none"]

CallComputeFrustrationIndex ==
  /\ pc = "ready"
  /\ \E f \in ComputeFrustrationIndex(graph) :
       result' = [op |-> "compute_frustration_index", error |-> "", frustration |-> f]
  /\ UNCHANGED <<graph, digraph, layers, all_nodes, pc, cancelled, frame>>

CallAnalyzeTriangles ==
  /\ pc = "ready"
  /\ result' = [op |-> "analyze_triangles", error |-> "",
                triangles |-> AnalyzeTriangles(graph)]
  /\ UNCHANGED <<graph, digraph, layers, all_nodes, pc, cancelled, frame>>

CallFindFrustratedEdges ==
  /\ pc = "ready"
  /\ \E o \in SpectralOutcomes(graph) :
       result' = IF o.error # ""
                 THEN [op |-> "find_frustrated_edges", error |-> o.error]
                 ELSE [op |-> "find_frustrated_edges", error |-> "",
                       partition |-> o.partition,
                       frustrated_edges |-> FrustratedEdgesOf(graph, o.partition)]
  /\ UNCHANGED <<graph, digraph, layers, all_nodes, pc, cancelled, frame>>

\* compute_structural_balance: the three calls of lines 235-237 come first, so
\* an error of find_frustrated_edges ends the call before the n == 0 return.
\* eigh is a function of its argument: the second decomposition (line 264)
\* gives the partition the first one gave.
CallComputeStructuralBalance ==
  /\ pc = "ready"
  /\ \E f \in ComputeFrustrationIndex(graph) : \E o \in SpectralOutcomes(graph) :
       result' =
         IF o.error # ""
         THEN [op |-> "compute_structural_balance", error |-> o.error]
         ELSE [op |-> "compute_structural_balance", error |-> "",
               is_balanced |-> (f = 0),
               frustration_index |-> f,
               frustrated_edges |-> FrustratedEdgesOf(graph, o.partition),
               balance_ratio |-> AnalyzeTriangles(graph).balance_ratio,
               triangles |-> AnalyzeTriangles(graph),
               positive_clusters |-> IF o.partition # {} THEN {o.partition} ELSE {},
               negative_clusters |-> IF graph.nodes \ o.partition # {}
                                     THEN {graph.nodes \ o.partition} ELSE {}]
  /\ UNCHANGED <<graph, digraph, layers, all_nodes, pc, cancelled, frame>>

(***************************************************************************)
(* create_signed_graph_from_edges: one edge record is one turn of the loop *)
(* of lines 291-303.  A record's 'sign' is an int, a string, None, or is   *)
(* absent.                                                                 *)
(***************************************************************************)
IntValue(i) == [kind |-> "int", int |-> i, str |-> ""]

StrValue(t) == [kind |-> "str", int |-> 0, str |-> t]

MissingValue == [kind |-> "missing", int |-> 0, str |-> ""]

NoneValue == [kind |-> "none", int |-> 0, str |-> ""]

SignValues ==
  {IntValue(i) : i \in {-1, 0, 1}}
    \cup {StrValue(t) : t \in {"POSITIVE", "NEGATIVE", "UNKNOWN"}}
    \cup {MissingValue, NoneValue}

\* Lines 292-296: the sign stored for a record, or the error int() raises.
ConvertSign(value) ==
  LET sign_value == IF value.kind = "missing" THEN StrValue("POSITIVE") ELSE value
  IN IF sign_value.kind = "str"
       THEN [error |-> "", sign |-> IF sign_value.str = "POSITIVE" THEN 1 ELSE -1]
     ELSE IF sign_value.kind = "int"
       THEN [error |-> "", sign |-> sign_value.int]
     ELSE [error |-> "TypeError", sign |-> 0]

\* networkx Graph.add_edge: the endpoints become nodes, the edge's attribute
\* dict is created or updated.
AddEdge(g, u, v, attr) ==
  [nodes |-> g.nodes \cup {u, v},
   data |-> [e \in Edges(g) \cup {{u, v}} |-> IF e = {u, v} THEN attr ELSE g.data[e]]]

CanGrow(g, u, v) == HasEdge(g, u, v) \/ Cardinality(Edges(g)) < MaxBuildEdges

\* pc = "building": the graph is being assembled, no analyzer exists yet.
AddEdgeRecord(u, v, value) ==
  /\ pc = "building"
  /\ CanGrow(graph, u, v)
  /\ LET c == ConvertSign(value)
     IN IF c.error # ""
        THEN /\ pc' = c.error
             /\ graph' = graph
             /\ result' = [op |-> "create_signed_graph_from_edges", error |-> c.error,
                           edge |-> {u, v}, value |-> value]
        ELSE /\ pc' = pc
             /\ graph' = AddEdge(graph, u, v, Attr(c.sign))
             /\ result' = [op |-> "create_signed_graph_from_edges", error |-> "",
                           edge |-> {u, v}, value |-> value]
  /\ UNCHANGED <<digraph, layers, all_nodes, cancelled, frame>>

\* The caller may hand the constructor any networkx Graph: an edge added
\* without a 'sign' attribute.
CallerAddEdge(u, v) ==
  /\ pc = "building"
  /\ CanGrow(graph, u, v)
  /\ graph' = AddEdge(graph, u, v, NoSignAttr)
  /\ result' = [op |-> "add_edge", error |-> ""]
  /\ pc' = pc
  /\ UNCHANGED <<digraph, layers, all_nodes, cancelled, frame>>

\* SignedNetworkAnalyzer.__init__
ConstructAnalyzer ==
  /\ pc = "building"
  /\ pc' = IF ValidateGraph(graph) = "ok" THEN "ready" ELSE ValidateGraph(graph)
  /\ result' = [op |-> "__init__", error |-> IF ValidateGraph(graph) = "ok" THEN ""
                                                ELSE ValidateGraph(graph)]
  /\ UNCHANGED <<graph, digraph, layers, all_nodes, cancelled, frame>>

(***************************************************************************)
(* The directed graph of AdvancedInstitutionalMetrics (networkx DiGraph):  *)
(* an edge is the pair <<source, target>>; <<u, u>> is a self-loop.        *)
(***************************************************************************)
EmptyDigraph == [nodes |-> {}, edges |-> {}]

\* The layer map of an analyzer that has none: layers or {}.
EmptyLayers == <<>>

Digraphs ==
  UNION { {[nodes |-> 1..n, edges |-> E]
             : E \in {X \in SUBSET ((1..n) \X (1..n)) : Cardinality(X) <= MaxDiEdges}}
          : n \in 0..MaxDiNodes }

InDegree(d, v) == Cardinality({e \in d.edges : e[2] = v})

OutDegree(d, v) == Cardinality({e \in d.edges : e[1] = v})

\* graph.successors(v): a self-loop makes v its own successor.
Successors(d, v) == {e[2] : e \in {x \in d.edges : x[1] = v}}

\* The nodes of S and the nodes within k edges of a node of S (breadth-first
\* layers 0..k).
RECURSIVE ReachableWithin(_, _, _)
ReachableWithin(d, S, k) ==
  IF k = 0 THEN S
  ELSE ReachableWithin(d, S \cup {e[2] : e \in {x \in d.edges : x[1] \in S}}, k - 1)

\* Mutant of Descendants: the source v is counted among its descendants.
DescendantsInclusive(d, v) == ReachableWithin(d, {v}, Cardinality(d.nodes))

\* networkx.descendants: every node reachable from v, v itself left out.
Descendants(d, v) == ReachableWithin(d, {v}, Cardinality(d.nodes)) \ {v}

\* list[:cap] of a list of nodes in graph.nodes() order: the cap least.
FirstNodes(S, cap) == {v \in S : Cardinality({w \in S : w < v}) < cap}

(***************************************************************************)
(* networkx.simple_cycles: every elementary circuit once, a self-loop      *)
(* being the circuit [v].  A circuit is written from its least node.       *)
(***************************************************************************)
\* Mutant of IsCycle: the edge that closes the circuit is not required.
IsCycleOpen(d, c) ==
  /\ \A i \in DOMAIN c : \A j \in DOMAIN c : i # j => c[i] # c[j]
  /\ \A i \in DOMAIN c : c[1] <= c[i]
  /\ \A i \in 1..(Len(c) - 1) : <<c[i], c[i + 1]>> \in d.edges

IsCycle(d, c) ==
  /\ \A i \in DOMAIN c : \A j \in DOMAIN c : i # j => c[i] # c[j]
  /\ \A i \in DOMAIN c : c[1] <= c[i]
  /\ \A i \in 1..(Len(c) - 1) : <<c[i], c[i + 1]>> \in d.edges
  /\ <<c[Len(c)], c[1]>> \in d.edges

SimpleCycles(d) ==
  UNION {{c \in [1..k -> d.nodes] : IsCycle(d, c)} : k \in 1..Cardinality(d.nodes)}

\* cycles[:1000]
CycleCap == 1000

\* The lists cycles[:CycleCap] can be: all the cycles when there are at most
\* CycleCap, else the CycleCap first in the order simple_cycles yields them.
CappedCycles(d) ==
  IF Cardinality(SimpleCycles(d)) <= CycleCap THEN {SimpleCycles(d)}
  ELSE {S \in SUBSET SimpleCycles(d) : Cardinality(S) = CycleCap}

(***************************************************************************)
(* AdvancedInstitutionalMetrics.detect_endogenous_risk.  A risk score      *)
(* 0.7 * (p / M) + 0.3 * (d / I) is kept as the pair                       *)
(* <<7*p*I + 3*d*M, 10*M*I>>.                                              *)
(***************************************************************************)
MaxOf(S) == CHOOSE x \in S : \A y \in S : y <= x

DetectEndogenousRisk(d, cycles) ==
  LET cycle_participation ==
        [v \in {w \in d.nodes : \E c \in cycles : \E i \in DOMAIN c : c[i] = w} |->
           Cardinality({c \in cycles : \E i \in DOMAIN c : c[i] = v})]
      max_participation ==
        IF DOMAIN cycle_participation # {}
        THEN MaxOf({cycle_participation[v] : v \in DOMAIN cycle_participation})
        ELSE 1
      participation(v) ==
        IF v \in DOMAIN cycle_participation THEN cycle_participation[v] ELSE 0
      max_in == IF d.nodes # {} THEN MaxOf({InDegree(d, v) : v \in d.nodes}) ELSE 1
  IN IF d.nodes # {} /\ max_in = 0
     THEN [op |-> "detect_endogenous_risk", error |-> "ZeroDivisionError"]
     ELSE [op |-> "detect_endogenous_risk", error |-> "",
           risk_scores |->
             [v \in d.nodes |->
                <<7 * participation(v) * max_in + 3 * InDegree(d, v) * max_participation,
                  10 * max_participation * max_in>>]]

CallDetectEndogenousRisk ==
  /\ pc = "metrics"
  /\ \E cycles \in CappedCycles(digraph) :
       result' = DetectEndogenousRisk(digraph, cycles)
  /\ UNCHANGED <<graph, digraph, layers, all_nodes, pc, cancelled, frame>>

(***************************************************************************)
(* Spec: an analyzer constructed around a well-formed signed graph, and    *)
(* its enumeration queries.  BalanceSpec adds the spectral queries.        *)
(***************************************************************************)
Init ==
  /\ graph \in SignedGraphs
  /\ digraph = EmptyDigraph
  /\ layers = EmptyLayers
  /\ all_nodes = {}
  /\ pc = "ready"
  /\ result = NoResult
  /\ cancelled = FALSE
  /\ frame = NoFrame

Next ==
  \/ CallComputeFrustrationIndex
  \/ CallAnalyzeTriangles

Spec == Init /\ [][Next]_vars

BalanceNext ==
  \/ CallComputeFrustrationIndex
  \/ CallAnalyzeTriangles
  \/ CallFindFrustratedEdges
  \/ CallComputeStructuralBalance

BalanceSpec == Init /\ [][BalanceNext]_vars

(***************************************************************************)
(* BuildSpec: a signed graph is assembled from edge records (or by the     *)
(* caller) and handed to the constructor of SignedNetworkAnalyzer.         *)
(***************************************************************************)
BuildInit ==
  /\ graph = EmptyGraph
  /\ digraph = EmptyDigraph
  /\ layers = EmptyLayers
  /\ all_nodes = {}
  /\ pc = "building"
  /\ result = NoResult
  /\ cancelled = FALSE
  /\ frame = NoFrame

BuildNext ==
  \/ \E u \in 1..BuildNodes : \E v \in 1..BuildNodes : \E value \in SignValues :
       AddEdgeRecord(u, v, value)
  \/ \E u \in 1..BuildNodes : \E v \in 1..BuildNodes : CallerAddEdge(u, v)
  \/ ConstructAnalyzer

BuildSpec == BuildInit /\ [][BuildNext]_vars

(***************************************************************************)
(* MetricsSpec: an AdvancedInstitutionalMetrics around a directed graph.   *)
(***************************************************************************)
MetricsInit ==
  /\ graph = EmptyGraph
  /\ digraph \in Digraphs
  /\ layers = EmptyLayers
  /\ all_nodes = {}
  /\ pc = "metrics"
  /\ result = NoResult
  /\ cancelled = FALSE
  /\ frame = NoFrame

MetricsNext ==
  \/ CallDetectEndogenousRisk

MetricsSpec == MetricsInit /\ [][MetricsNext]_vars

(***************************************************************************)
(* AdvancedInstitutionalMetrics.analyze_path_dependence                    *)
(***************************************************************************)
\* critical_junctions[:10]
JunctionCap == 10

\* len(nx.single_source_shortest_path(graph, junction, cutoff=3)): the nodes
\* within three edges of the junction, the junction included.
HistoryCutoff == 3

AnalyzePathDependence(d) ==
  LET critical_junctions == {n \in d.nodes : OutDegree(d, n) >= 2}
      \* path_dependent[node]: the junctions with a successor of which node is
      \* a descendant; a node that is no such descendant is no key.
      path_dependent ==
        [node \in {w \in d.nodes :
                     \E j \in critical_junctions : \E succ \in Successors(d, j) :
                       w \in Descendants(d, succ)} |->
           {j \in critical_junctions :
              \E succ \in Successors(d, j) : node \in Descendants(d, succ)}]
      single_path_dependent ==
        {n \in DOMAIN path_dependent : Cardinality(path_dependent[n]) = 1}
      first == FirstNodes(critical_junctions, JunctionCap)
      alternative_histories ==
        SumOf(first, [j \in first |->
                        Cardinality(ReachableWithin(d, {j}, HistoryCutoff)) - 1])
  IN [op |-> "analyze_path_dependence", error |-> "",
      path_dependent_nodes |-> single_path_dependent,
      critical_junctions |-> critical_junctions,
      alternative_histories |-> alternative_histories,
      lock_in_score |-> IF d.nodes # {}
                        THEN <<Cardinality(single_path_dependent), Cardinality(d.nodes)>>
                        ELSE <<0, 1>>]

CallAnalyzePathDependence ==
  /\ pc = "metrics"
  /\ result' = AnalyzePathDependence(digraph)
  /\ UNCHANGED <<graph, digraph, layers, all_nodes, pc, cancelled, frame>>

(***************************************************************************)
(* AdvancedInstitutionalMetrics.analyze_constraint_dominance.  The         *)
(* argument constraint_nodes is a list (a sequence) of node identifiers.   *)
(***************************************************************************)
MaxConstraints == 2

\* The lists a caller can pass: identifiers of nodes, some of them perhaps not
\* in the graph, in any order and with repetitions.
ConstraintLists ==
  UNION {[1..k -> 1..MaxDiNodes] : k \in 0..MaxConstraints}

\* decision_nodes[:50], outcome_nodes[:50]
EndpointCap == 50

\* cutoff=5
PathCutoff == 5

\* networkx.all_simple_paths(graph, source, target, cutoff): the paths without
\* repeated node from source to target of at most cutoff edges.
AllSimplePaths(d, source, target, cutoff) ==
  LET longest == IF cutoff + 1 < Cardinality(d.nodes)
                 THEN cutoff + 1 ELSE Cardinality(d.nodes)
  IN UNION {{path \in [1..k -> d.nodes] :
               /\ path[1] = source
               /\ path[k] = target
               /\ \A i \in 1..k : \A j \in 1..k : i # j => path[i] # path[j]
               /\ \A i \in 1..(k - 1) : <<path[i], path[i + 1]>> \in d.edges}
            : k \in 2..longest}

\* The paths the two loops of lines 92-97 enumerate.
EnumeratedPaths(d) ==
  LET decision_nodes == {n \in d.nodes : OutDegree(d, n) > InDegree(d, n)}
      outcome_nodes == {n \in d.nodes : InDegree(d, n) > OutDegree(d, n)}
  IN UNION {AllSimplePaths(d, decision, outcome, PathCutoff)
            : decision \in FirstNodes(decision_nodes, EndpointCap),
              outcome \in FirstNodes(outcome_nodes, EndpointCap)}

OnPath(c, path) == \E i \in DOMAIN path : path[i] = c

\* Lines 82 and 98-108.  The dict has one key per distinct constraint; the
\* loop of line 100 runs over the list, so that a constraint listed k times is
\* incremented k times for every path it lies on.  A score a / b is the pair
\* <<a, b>>.
DominanceScores(d, constraint_nodes) ==
  LET paths == EnumeratedPaths(d)
      path_count == Cardinality(paths)
      keys == {constraint_nodes[i] : i \in DOMAIN constraint_nodes}
      increments(c) ==
        Cardinality({i \in DOMAIN constraint_nodes : constraint_nodes[i] = c})
          * Cardinality({path \in paths : OnPath(c, path)})
  IN [c \in keys |-> IF path_count > 0 THEN <<increments(c), path_count>>
                     ELSE <<0, 1>>]

\* The outcomes of a call.  Lines 110-133 derive hierarchy, dominant set and
\* switch likelihood from the scores; np.percentile of the empty list of
\* line 119 raises IndexError or returns nan, by numpy version.
AnalyzeConstraintDominance(d, constraint_nodes) ==
  LET ok == [op |-> "analyze_constraint_dominance", error |-> "",
             constraint_nodes |-> constraint_nodes,
             dominance_scores |-> DominanceScores(d, constraint_nodes)]
  IN IF Len(constraint_nodes) = 0
     THEN {ok, [op |-> "analyze_constraint_dominance", error |-> "IndexError",
                constraint_nodes |-> constraint_nodes]}
     ELSE {ok}

CallAnalyzeConstraintDominance(constraint_nodes) ==
  /\ pc = "metrics"
  /\ result' \in AnalyzeConstraintDominance(digraph, constraint_nodes)
  /\ UNCHANGED <<graph, digraph, layers, all_nodes, pc, cancelled, frame>>

(***************************************************************************)
(* PathSpec: the path queries of AdvancedInstitutionalMetrics.             *)
(***************************************************************************)
DependenceNext ==
  \/ CallAnalyzePathDependence

DependenceSpec == MetricsInit /\ [][DependenceNext]_vars

PathNext ==
  \/ CallAnalyzePathDependence
  \/ \E constraint_nodes \in ConstraintLists :
       CallAnalyzeConstraintDominance(constraint_nodes)

PathSpec == MetricsInit /\ [][PathNext]_vars

(***************************************************************************)
(* AdvancedInstitutionalMetrics.analyze_structural_optionality.  The value *)
(* (3*r1 + 2*r2 + r3) / (6 * total) is kept as the pair                    *)
(* <<3*r1 + 2*r2 + r3, 6 * total>>.                                        *)
(***************************************************************************)
MaxOptNodes == 4

MaxOptEdges == 3

OptDigraphs ==
  UNION { {[nodes |-> 1..n, edges |-> E]
             : E \in {X \in SUBSET ((1..n) \X (1..n)) : Cardinality(X) <= MaxOptEdges}}
          : n \in 0..MaxOptNodes }

\* networkx.descendants_at_distance: the nodes of breadth-first layer k.
DescendantsAtDistance(d, source, k) ==
  ReachableWithin(d, {source}, k) \ ReachableWithin(d, {source}, k - 1)

\* Mutant of Optionality: the weights are given to the depths in reverse.
OptionalityFarFirst(d, node) ==
  LET reachable_1 == Cardinality(Successors(d, node))
      reachable_2 == Cardinality(DescendantsAtDistance(d, node, 2))
      reachable_3 == Cardinality(DescendantsAtDistance(d, node, 3))
      total == Cardinality(d.nodes) - 1
  IN IF total > 0
     THEN <<reachable_1 + 2 * reachable_2 + 3 * reachable_3, 6 * total>>
     ELSE <<0, 1>>

\* Lines 376-388 for one node.
Optionality(d, node) ==
  LET reachable_1 == Cardinality(Successors(d, node))
      reachable_2 == Cardinality(DescendantsAtDistance(d, node, 2))
      reachable_3 == Cardinality(DescendantsAtDistance(d, node, 3))
      total == Cardinality(d.nodes) - 1
  IN IF total > 0
     THEN <<3 * reachable_1 + 2 * reachable_2 + reachable_3, 6 * total>>
     ELSE <<0, 1>>

AnalyzeStructuralOptionality(d) == [node \in d.nodes |-> Optionality(d, node)]

CallAnalyzeStructuralOptionality ==
  /\ pc = "metrics"
  /\ result' = [op |-> "analyze_structural_optionality", error |-> "",
                optionality |-> AnalyzeStructuralOptionality(digraph)]
  /\ UNCHANGED <<graph, digraph, layers, all_nodes, pc, cancelled, frame>>

(***************************************************************************)
(* OptionalitySpec: the optionality query, on graphs wide enough to have   *)
(* nodes at distance 3.                                                    *)
(***************************************************************************)
OptionalityInit ==
  /\ graph = EmptyGraph
  /\ digraph \in OptDigraphs
  /\ layers = EmptyLayers
  /\ all_nodes = {}
  /\ pc = "metrics"
  /\ result = NoResult
  /\ cancelled = FALSE
  /\ frame = NoFrame

OptionalityNext ==
  \/ CallAnalyzeStructuralOptionality

OptionalitySpec == OptionalityInit /\ [][OptionalityNext]_vars

(***************************************************************************)
(* MultiplexCentralityAnalyzer (centrality/multiplex_centrality.py).  The  *)
(* layer map is a dict in insertion order: a sequence of records           *)
(* [name, nodes, edges], the names distinct.  A layer is an undirected     *)
(* networkx.Graph: an edge is the set of its endpoints, {u} a self-loop.   *)
(***************************************************************************)
MaxLayerNodes == 2

MaxLayerEdges == 2

\* The names a layer can have, in the order the caller inserts them.
LayerNames == <<"L1", "L2">>

\* A name no layer has.
QueryNames == {LayerNames[i] : i \in DOMAIN LayerNames} \cup {"L0"}

\* The undirected graphs on a subset of the nodes 1..n with at most m edges.
LayerGraphs(n, m) ==
  UNION {{[nodes |-> V, edges |-> E]
            : E \in {X \in SUBSET EdgeKeys(V) : Cardinality(X) <= m}}
         : V \in SUBSET (1..n)}

\* The layer maps whose keys are those of LayerNames picked by `names`.
RECURSIVE LayerMapsOver(_, _, _, _)
LayerMapsOver(names, i, n, m) ==
  IF i > Len(LayerNames) THEN {<<>>}
  ELSE LET rest == LayerMapsOver(names, i + 1, n, m)
       IN IF LayerNames[i] \in names
          THEN {<<[name |-> LayerNames[i], nodes |-> G.nodes, edges |-> G.edges]>> \o r
                  : G \in LayerGraphs(n, m), r \in rest}
          ELSE rest

LayerMaps(n, m) ==
  UNION {LayerMapsOver(names, 1, n, m)
         : names \in SUBSET {LayerNames[i] : i \in DOMAIN LayerNames}}

\* layer_name in self.layers
HasLayer(ls, layer_name) == \E i \in DOMAIN ls : ls[i].name = layer_name

\* self.layers[layer_name]
LayerOf(ls, layer_name) == ls[CHOOSE i \in DOMAIN ls : ls[i].name = layer_name]

\* MultiplexCentralityAnalyzer._get_all_nodes
GetAllNodes(ls) == UNION {ls[i].nodes : i \in DOMAIN ls}

\* G.degree(node): a self-loop adds 2.
Degree(G, node) ==
  Cardinality({e \in G.edges : node \in e /\ e # {node}})
    + (IF {node} \in G.edges THEN 2 ELSE 0)

\* Sum of f[i] over the indices of a sequence, as Python's sum over a list.
RECURSIVE SumSeq(_, _)
SumSeq(f, k) == IF k = 0 THEN 0 ELSE f[k] + SumSeq(f, k - 1)

(***************************************************************************)
(* compute_versatility.  The ratio participating_layers / len(layers) is   *)
(* the pair <<participating_layers, len(layers)>>.                         *)
(***************************************************************************)
\* Mutant of ComputeVersatility: the layers with an edge at the node are
\* counted, not the layers that contain it.
ComputeVersatilityByDegree(ls, node) ==
  LET participating_layers ==
        Cardinality({i \in DOMAIN ls : node \in ls[i].nodes /\ Degree(ls[i], node) > 0})
  IN IF Len(ls) = 0 THEN [error |-> "ZeroDivisionError", value |-> <<0, 1>>]
     ELSE [error |-> "", value |-> <<participating_layers, Len(ls)>>]

ComputeVersatility(ls, node) ==
  LET participating_layers == Cardinality({i \in DOMAIN ls : node \in ls[i].nodes})
  IN IF Len(ls) = 0 THEN [error |-> "ZeroDivisionError", value |-> <<0, 1>>]
     ELSE [error |-> "", value |-> <<participating_layers, Len(ls)>>]

(***************************************************************************)
(* compute_participation_coefficient.                                      *)
(*   (L / (L - 1)) * (1 - sum((d / T) ** 2))                               *)
(*     = L * (T*T - sum(d*d)) / ((L - 1) * T*T)                            *)
(***************************************************************************)
\* max(0.0, min(1.0, P)) on a ratio with positive denominator.
Clamp(p) ==
  IF p[1] < 0 THEN <<0, 1>> ELSE IF p[1] > p[2] THEN <<1, 1>> ELSE p

\* Mutant of ComputeParticipationCoefficient: the shares d / T are summed
\* without being squared.
ComputeParticipationCoefficientUnsquared(ls, node) ==
  LET layer_degrees == [i \in DOMAIN ls |->
                          IF node \in ls[i].nodes THEN Degree(ls[i], node) ELSE 0]
      total_degree == SumSeq(layer_degrees, Len(ls))
      L == Len(ls)
  IN IF total_degree = 0 THEN <<0, 1>>
     ELSE IF L > 1
       THEN Clamp(<<L * (total_degree - SumSeq(layer_degrees, L)), (L - 1) * total_degree>>)
     ELSE Clamp(<<0, 1>>)

ComputeParticipationCoefficient(ls, node) ==
  LET layer_degrees == [i \in DOMAIN ls |->
                          IF node \in ls[i].nodes THEN Degree(ls[i], node) ELSE 0]
      total_degree == SumSeq(layer_degrees, Len(ls))
      L == Len(ls)
      squares == [i \in DOMAIN ls |-> layer_degrees[i] * layer_degrees[i]]
  IN IF total_degree = 0 THEN <<0, 1>>
     ELSE IF L > 1
       THEN Clamp(<<L * (total_degree * total_degree - SumSeq(squares, L)),
                    (L - 1) * total_degree * total_degree>>)
     ELSE Clamp(<<0, 1>>)

(***************************************************************************)
(* compute_node_analysis                                                   *)
(***************************************************************************)
\* a / b + c / d
RatioAdd(p, q) == <<p[1] * q[2] + q[1] * p[2], p[2] * q[2]>>

RECURSIVE RatioSum(_, _)
RatioSum(f, k) == IF k = 0 THEN <<0, 1>> ELSE RatioAdd(f[k], RatioSum(f, k - 1))

ComputeNodeAnalysis(ls, node) ==
  LET layer_centralities ==
        [i \in DOMAIN ls |->
           IF node \in ls[i].nodes /\ Cardinality(ls[i].nodes) > 1
           THEN <<Degree(ls[i], node), Cardinality(ls[i].nodes) - 1>>
           ELSE <<0, 1>>]
      total == RatioSum(layer_centralities, Len(ls))
      aggregate == IF Len(ls) > 0 THEN <<total[1], total[2] * Len(ls)>> ELSE <<0, 1>>
      versatility == ComputeVersatility(ls, node)
  IN IF versatility.error # ""
     THEN [op |-> "compute_node_analysis", node |-> node, error |-> versatility.error]
     ELSE [op |-> "compute_node_analysis", node |-> node, error |-> "",
           layer_centralities |-> layer_centralities,
           aggregate_centrality |-> aggregate,
           versatility |-> versatility.value,
           participation_coefficient |-> ComputeParticipationCoefficient(ls, node)]

(***************************************************************************)
(* compute_layer_centralities.  The five centralities are networkx's; the  *)
(* record keeps the degree centrality.  On the graph without nodes         *)
(* nx.eigenvector_centrality raises NetworkXPointlessConcept, which is     *)
(* not one of the exceptions lines 86 and 92 catch.                        *)
(***************************************************************************)
\* nx.degree_centrality
DegreeCentrality(G) ==
  [n \in G.nodes |-> IF Cardinality(G.nodes) <= 1 THEN <<1, 1>>
                     ELSE <<Degree(G, n), Cardinality(G.nodes) - 1>>]

\* Mutant of ComputeLayerCentralities: the check of line 69 is missing, and
\* self.layers[layer_name] raises KeyError.
ComputeLayerCentralitiesUnchecked(ls, layer_name) ==
  IF ~HasLayer(ls, layer_name)
  THEN [op |-> "compute_layer_centralities", layer_name |-> layer_name,
        error |-> "KeyError"]
  ELSE IF LayerOf(ls, layer_name).nodes = {}
  THEN [op |-> "compute_layer_centralities", layer_name |-> layer_name,
        error |-> "NetworkXPointlessConcept"]
  ELSE [op |-> "compute_layer_centralities", layer_name |-> layer_name, error |-> "",
        degree |-> DegreeCentrality(LayerOf(ls, layer_name))]

ComputeLayerCentralities(ls, layer_name) ==
  IF ~HasLayer(ls, layer_name)
  THEN [op |-> "compute_layer_centralities", layer_name |-> layer_name,
        error |-> "ValueError"]
  ELSE IF LayerOf(ls, layer_name).nodes = {}
  THEN [op |-> "compute_layer_centralities", layer_name |-> layer_name,
        error |-> "NetworkXPointlessConcept"]
  ELSE [op |-> "compute_layer_centralities", layer_name |-> layer_name, error |-> "",
        degree |-> DegreeCentrality(LayerOf(ls, layer_name))]

(***************************************************************************)
(* The analyzer's queries as steps.  pc = "centrality": a                  *)
(* MultiplexCentralityAnalyzer exists around `layers`.                     *)
(***************************************************************************)
CallComputeVersatility(node) ==
  /\ pc = "centrality"
  /\ result' = [op |-> "compute_versatility", node |-> node,
                error |-> ComputeVersatility(layers, node).error,
                value |-> ComputeVersatility(layers, node).value]
  /\ UNCHANGED <<graph, digraph, layers, all_nodes, pc, cancelled, frame>>

CallComputeParticipationCoefficient(node) ==
  /\ pc = "centrality"
  /\ result' = [op |-> "compute_participation_coefficient", node |-> node,
                error |-> "",
                value |-> ComputeParticipationCoefficient(layers, node)]
  /\ UNCHANGED <<graph, digraph, layers, all_nodes, pc, cancelled, frame>>

CallComputeNodeAnalysis(node) ==
  /\ pc = "centrality"
  /\ result' = ComputeNodeAnalysis(layers, node)
  /\ UNCHANGED <<graph, digraph, layers, all_nodes, pc, cancelled, frame>>

CallComputeLayerCentralities(layer_name) ==
  /\ pc = "centrality"
  /\ result' = ComputeLayerCentralities(layers, layer_name)
  /\ UNCHANGED <<graph, digraph, layers, all_nodes, pc, cancelled, frame>>

(***************************************************************************)
(* LayerSpec: a MultiplexCentralityAnalyzer constructed around a layer     *)
(* map, and its per-node and per-layer queries.  The node MaxLayerNodes+1  *)
(* is in no layer.                                                         *)
(***************************************************************************)
LayerInit ==
  /\ graph = EmptyGraph
  /\ digraph = EmptyDigraph
  /\ layers \in LayerMaps(MaxLayerNodes, MaxLayerEdges)
  /\ all_nodes = GetAllNodes(layers)
  /\ pc = "centrality"
  /\ result = NoResult
  /\ cancelled = FALSE
  /\ frame = NoFrame

LayerNext ==
  \/ \E node \in 1..(MaxLayerNodes + 1) : CallComputeVersatility(node)
  \/ \E node \in 1..(MaxLayerNodes + 1) : CallComputeParticipationCoefficient(node)
  \/ \E node \in 1..(MaxLayerNodes + 1) : CallComputeNodeAnalysis(node)
  \/ \E layer_name \in QueryNames : CallComputeLayerCentralities(layer_name)

LayerSpec == LayerInit /\ [][LayerNext]_vars

(***************************************************************************)
(* compute_multiplex_pagerank.  A rational a / b is the pair <<a, b>>.     *)
(* The supra-adjacency matrix is kept multiplied by the denominator of     *)
(* inter_layer_weight, which the row normalisation of lines 246-251        *)
(* cancels: an intra-layer entry 1 is stored as w[2], an inter-layer entry *)
(* w[1] / w[2] as w[1].  Indices are 0-based as in the code; a vector or a *)
(* matrix row is a tuple whose element k + 1 is the entry of index k.      *)
(***************************************************************************)
MaxRankNodes == 2

MaxRankEdges == 1

\* The graphs of detect_latent_subgraphs: nodes, and edges of a graph.
MaxLatentNodes == 6
MaxLatentEdges == 4

\* inter_layer_weight, damping, max_iter and tol as the caller may give them.
InterLayerWeights == {<<0, 1>>, <<1, 2>>, <<1, 1>>}

Dampings == {<<1, 2>>, <<17, 20>>}

MaxIters == {0, 1, 2}

Tolerances == {<<1, 1000000>>, <<1, 2>>}

\* node_idx[node] for nodes = sorted(self.all_nodes)
NodeIdx(U, node) == Cardinality({w \in U : w < node})

\* nodes[k]
SortedNode(U, k) == CHOOSE v \in U : NodeIdx(U, v) = k

\* Mutant of SupraEntry: the inter-layer link is set when the node is in the
\* other layer.
SupraEntryByTarget(ls, U, w, i, j) ==
  LET n == Cardinality(U)
      layer_idx == i \div n
      other_idx == j \div n
      u == SortedNode(U, i % n)
      v == SortedNode(U, j % n)
  IN IF layer_idx = other_idx
     THEN IF {u, v} \in ls[layer_idx + 1].edges THEN w[2] ELSE 0
     ELSE IF u = v /\ u \in ls[other_idx + 1].nodes THEN w[1] ELSE 0

\* supra_A[i, j] after the loops of lines 221-240.
SupraEntry(ls, U, w, i, j) ==
  LET n == Cardinality(U)
      layer_idx == i \div n
      other_idx == j \div n
      u == SortedNode(U, i % n)
      v == SortedNode(U, j % n)
  IN IF layer_idx = other_idx
     THEN IF {u, v} \in ls[layer_idx + 1].edges THEN w[2] ELSE 0
     ELSE IF u = v /\ u \in ls[layer_idx + 1].nodes THEN w[1] ELSE 0

RECURSIVE SupraRow(_, _, _, _, _)
SupraRow(ls, U, w, i, j) ==
  IF j >= Cardinality(U) * Len(ls) THEN <<>>
  ELSE <<SupraEntry(ls, U, w, i, j)>> \o SupraRow(ls, U, w, i, j + 1)

RECURSIVE SupraRows(_, _, _, _)
SupraRows(ls, U, w, i) ==
  IF i >= Cardinality(U) * Len(ls) THEN <<>>
  ELSE <<SupraRow(ls, U, w, i, 0)>> \o SupraRows(ls, U, w, i + 1)

SupraMatrix(ls, U, w) == SupraRows(ls, U, w, 0)

\* row_sums, line 246
RECURSIVE RowSums(_, _)
RowSums(A, i) ==
  IF i > Len(A) THEN <<>> ELSE <<SumSeq(A[i], Len(A[i]))>> \o RowSums(A, i + 1)

RECURSIVE Gcd(_, _)
Gcd(a, b) == IF b = 0 THEN a ELSE Gcd(b, a % b)

\* The least common multiple of the non-zero entries of r[1..k]: the common
\* denominator of the rows of P = D_inv @ supra_A.
RECURSIVE RowLcm(_, _)
RowLcm(r, k) ==
  IF k = 0 THEN 1
  ELSE LET rest == RowLcm(r, k - 1)
       IN IF r[k] = 0 THEN rest ELSE (rest \div Gcd(rest, r[k])) * r[k]

\* pr_new = damping * (P.T @ pr) + (1 - damping) / supra_size, line 257, for
\* pr = x / D and damping = a / b: the numerators of pr_new over the
\* denominator b * N * R * D, entries j..N.  A row of sum 0 is all zero
\* (line 247 gives it the divisor 1).
RECURSIVE StepNumerators(_, _, _, _, _, _, _)
StepNumerators(A, r, R, damping, x, D, j) ==
  LET N == Len(A)
  IN IF j > N THEN <<>>
     ELSE <<damping[1] * N
              * SumSeq([i \in 1..N |->
                          IF r[i] = 0 THEN 0 ELSE A[i][j] * (R \div r[i]) * x[i]], N)
            + (damping[2] - damping[1]) * R * D>>
          \o StepNumerators(A, r, R, damping, x, D, j + 1)

RECURSIVE GcdOf(_, _, _)
GcdOf(x, k, g) == IF k = 0 THEN g ELSE GcdOf(x, k - 1, Gcd(g, x[k]))

RECURSIVE Scaled(_, _, _)
Scaled(x, g, j) == IF j > Len(x) THEN <<>> ELSE <<x[j] \div g>> \o Scaled(x, g, j + 1)

\* The loop of lines 256-262, `left` turns of it still to run.
RECURSIVE PowerIteration(_, _, _, _, _, _, _, _)
PowerIteration(A, r, R, damping, tol, x, D, left) ==
  IF left = 0 THEN [x |-> x, D |-> D]
  ELSE LET N == Len(A)
           K == damping[2] * N * R
           new == StepNumerators(A, r, R, damping, x, D, 1)
           newD == K * D
           \* np.linalg.norm(pr_new - pr, 1) * newD
           norm == SumSeq([j \in 1..N |-> Abs(new[j] - K * x[j])], N)
           g == GcdOf(new, N, newD)
       IN IF norm <= (tol[1] * newD - 1) \div tol[2]
          THEN [x |-> x, D |-> D]
          ELSE PowerIteration(A, r, R, damping, tol, Scaled(new, g, 1), newD \div g,
                              left - 1)

\* Mutant of Aggregate: the normalisation of lines 272-274 is missing.
AggregateUnnormalised(U, L, pr) ==
  [node \in U |->
     <<SumSeq([l \in 1..L |-> pr.x[(l - 1) * Cardinality(U) + NodeIdx(U, node) + 1]], L),
       pr.D>>]

\* Lines 265-274: the entries of a node summed over the layers, then divided
\* by their total.
Aggregate(U, L, pr) ==
  LET n == Cardinality(U)
      sums == [node \in U |->
                 SumSeq([l \in 1..L |-> pr.x[(l - 1) * n + NodeIdx(U, node) + 1]], L)]
      total == SumOf(U, sums)
  IN [node \in U |-> IF total > 0 THEN <<sums[node], total>> ELSE <<sums[node], pr.D>>]

RECURSIVE Ones(_)
Ones(k) == IF k = 0 THEN <<>> ELSE <<1>> \o Ones(k - 1)

ComputeMultiplexPagerank(ls, U, inter_layer_weight, damping, max_iter, tol) ==
  LET n == Cardinality(U)
      L == Len(ls)
      supra_size == n * L
      supra_A == SupraMatrix(ls, U, inter_layer_weight)
      row_sums == RowSums(supra_A, 1)
      pr == PowerIteration(supra_A, row_sums, RowLcm(row_sums, supra_size), damping,
                           tol, Ones(supra_size), supra_size, max_iter)
  IN IF n = 0
     THEN [op |-> "compute_multiplex_pagerank", error |-> "",
           inter_layer_weight |-> inter_layer_weight, supra_A |-> <<>>,
           pagerank |-> <<>>]
     ELSE [op |-> "compute_multiplex_pagerank", error |-> "",
           inter_layer_weight |-> inter_layer_weight, supra_A |-> supra_A,
           pagerank |-> Aggregate(U, L, pr)]

\* The request of main.py, lines 537-547: the analyzer is built for the call
\* and dropped when the call has returned (pc = "returned").  The call reads
\* layers and all_nodes only, so a second call on the same analyzer would reach
\* the states a first call reaches.
CallComputeMultiplexPagerank(inter_layer_weight, damping, max_iter, tol) ==
  /\ pc = "centrality"
  /\ result' = ComputeMultiplexPagerank(layers, all_nodes, inter_layer_weight,
                                        damping, max_iter, tol)
  /\ pc' = "returned"
  /\ UNCHANGED <<graph, digraph, layers, all_nodes, cancelled, frame>>

(***************************************************************************)
(* RankSpec: a MultiplexCentralityAnalyzer and its multiplex PageRank.     *)
(***************************************************************************)
RankInit ==
  /\ graph = EmptyGraph
  /\ digraph = EmptyDigraph
  /\ layers \in LayerMaps(MaxRankNodes, MaxRankEdges)
  /\ all_nodes = GetAllNodes(layers)
  /\ pc = "centrality"
  /\ result = NoResult
  /\ cancelled = FALSE
  /\ frame = NoFrame

RankNext ==
  \/ \E w \in InterLayerWeights : \E damping \in Dampings :
       \E max_iter \in MaxIters : \E tol \in Tolerances :
         CallComputeMultiplexPagerank(w, damping, max_iter, tol)

RankSpec == RankInit /\ [][RankNext]_vars

(***************************************************************************)
(* AdvancedInstitutionalMetrics.measure_information_asymmetry.  Scores are *)
(* exact ratios: every access score of a graph is written over the one     *)
(* denominator AccessScale, so that sorting, sums and comparisons are done *)
(* on the integer numerators (floating-point rounding is not modelled).    *)
(***************************************************************************)
\* graph.reverse(): a copy with every edge turned round.
Reverse(d) == [nodes |-> d.nodes, edges |-> {<<e[2], e[1]>> : e \in d.edges}]

RECURSIVE LcmUpTo(_)
LcmUpTo(k) ==
  IF k <= 1 THEN 1
  ELSE LET rest == LcmUpTo(k - 1) IN (rest \div Gcd(rest, k)) * k

\* A common multiple of every possible sum of shortest-path lengths of a
\* graph of n nodes (at most 1 + 2 + ... + (n - 1)).
DistanceScale(n) == LcmUpTo((n * (n - 1)) \div 2)

\* The sum of the shortest-path lengths from u to the nodes u reaches in y.
RECURSIVE DistanceSum(_, _, _)
DistanceSum(y, u, k) ==
  IF k = 0 THEN 0
  ELSE k * Cardinality(DescendantsAtDistance(y, u, k)) + DistanceSum(y, u, k - 1)

\* networkx.closeness_centrality(x)[u] (wf_improved), times
\* (n - 1) * DistanceScale(n).  For a directed graph networkx measures the
\* distances TO u, the distances from u in x.reverse():
\*   closeness = ((r - 1) / totsp) * ((r - 1) / (n - 1)) when totsp > 0 and
\*   n > 1, else 0, r being the number of nodes that reach u, u included.
ClosenessCentrality(x, u) ==
  LET y == Reverse(x)
      n == Cardinality(x.nodes)
      r == Cardinality(ReachableWithin(y, {u}, n))
      totsp == DistanceSum(y, u, n)
  IN IF totsp > 0 /\ n > 1
     THEN (r - 1) * (r - 1) * (DistanceScale(n) \div totsp)
     ELSE 0

\* The denominator of the access scores: (in + out) / 2 of two closeness
\* values over (n - 1) * DistanceScale(n).
AccessScale(d) ==
  LET n == Cardinality(d.nodes)
  IN IF n > 1 THEN 2 * (n - 1) * DistanceScale(n) ELSE 1

\* access_scores, lines 285-291, as numerators over AccessScale(d): the
\* scores of the nodes 1..k (the nodes of a graph are numbered from 1).
RECURSIVE AccessScoresUpTo(_, _)
AccessScoresUpTo(d, k) ==
  IF k = 0 THEN <<>>
  ELSE AccessScoresUpTo(d, k - 1)
       \o <<ClosenessCentrality(Reverse(d), k) + ClosenessCentrality(d, k)>>

AccessScores(d) == AccessScoresUpTo(d, Cardinality(d.nodes))

\* sorted(values): the values of f over S in ascending order.
RECURSIVE SortedValues(_, _)
SortedValues(S, f) ==
  IF S = {} THEN <<>>
  ELSE LET m == CHOOSE v \in S : \A w \in S : f[v] < f[w] \/ (f[v] = f[w] /\ v <= w)
       IN <<f[m]>> \o SortedValues(S \ {m}, f)

\* sum((2 * i - n + 1) * s for i, s in enumerate(scores)), scores[1..k] being
\* the entries of 0-based index 0..k-1.
RECURSIVE GiniNumerator(_, _, _)
GiniNumerator(scores, n, k) ==
  IF k = 0 THEN 0
  ELSE (2 * (k - 1) - n + 1) * scores[k] + GiniNumerator(scores, n, k - 1)

\* Mutant of GiniCoefficient: the access scores are taken in node order, the
\* sort being left out.
GiniCoefficientUnsorted(d) ==
  LET access == AccessScores(d)
      scores == [i \in 1..Cardinality(d.nodes) |-> access[i]]
      n == Len(scores)
      total == SumSeq(scores, n)
  IN IF n > 0 /\ total > 0
     THEN Clamp(<<GiniNumerator(scores, n, n), n * total>>)
     ELSE <<0, 1>>

\* Lines 317-323 and max(0, min(1, gini)) of line 329.  The scale of the
\* scores cancels in numerator / (n * sum(scores)).
GiniCoefficient(d) ==
  LET scores == SortedValues(d.nodes, AccessScores(d))
      n == Len(scores)
      total == SumSeq(scores, n)
  IN IF n > 0 /\ total > 0
     THEN Clamp(<<GiniNumerator(scores, n, n), n * total>>)
     ELSE <<0, 1>>

\* nodes[:100] of lines 299-300 and asymmetric_pairs[:50] of line 326.
PairNodeCap == 100
PairCap == 50

\* The pairs (n1, n2, score_diff) with score_diff > 0.3, n1 before n2 among
\* the first hundred nodes; score_diff is a numerator over AccessScale(d).
AsymmetricPairs(d) ==
  LET access == AccessScores(d)
      first == FirstNodes(d.nodes, PairNodeCap)
  IN {<<n1, n2, Abs(access[n1] - access[n2])>> :
        <<n1, n2>> \in {p \in first \X first :
                          /\ p[1] < p[2]
                          /\ 10 * Abs(access[p[1]] - access[p[2]]) > 3 * AccessScale(d)}}

\* sort(key=-score_diff) is stable: equal differences keep the order in which
\* the pairs were found.  The PairCap first pairs of the sorted list.
TopPairs(P) ==
  LET Before(p, q) == \/ p[3] > q[3]
                      \/ p[3] = q[3] /\ (p[1] < q[1] \/ (p[1] = q[1] /\ p[2] < q[2]))
  IN {q \in P : Cardinality({p \in P : Before(p, q)}) < PairCap}

\* Ten times numpy.percentile(values, 10 * tenths) of the sorted scores
\* (linear interpolation between the two nearest ranks), 0 for no score.
PercentileTimesTen(scores, tenths) ==
  LET n == Len(scores)
      lo == ((n - 1) * tenths) \div 10
      hi == IF lo + 1 < n THEN lo + 1 ELSE lo
  IN IF n = 0 THEN 0
     ELSE 10 * scores[lo + 1]
          + ((n - 1) * tenths - 10 * lo) * (scores[hi + 1] - scores[lo + 1])

MeasureInformationAsymmetry(d) ==
  LET access == AccessScores(d)
      scores == SortedValues(d.nodes, access)
  IN [op |-> "measure_information_asymmetry", error |-> "",
      access_scores |-> access,
      scale |-> AccessScale(d),
      asymmetric_pairs |-> TopPairs(AsymmetricPairs(d)),
      information_hubs |->
        {n \in d.nodes : 10 * access[n] >= PercentileTimesTen(scores, 9)},
      information_periphery |->
        {n \in d.nodes : 10 * access[n] <= PercentileTimesTen(scores, 1)},
      gini_coefficient |-> GiniCoefficient(d)]

\* Mutant of CallMeasureInformationAsymmetry: the graph is reversed in place
\* (and left reversed) instead of being copied by graph.reverse().
CallMeasureInformationAsymmetryInPlace ==
  /\ pc = "metrics"
  /\ result' = MeasureInformationAsymmetry(digraph)
  /\ digraph' = Reverse(digraph)
  /\ UNCHANGED <<graph, layers, all_nodes, pc, cancelled, frame>>

CallMeasureInformationAsymmetry ==
  /\ pc = "metrics"
  /\ result' = MeasureInformationAsymmetry(digraph)
  /\ UNCHANGED <<graph, digraph, layers, all_nodes, pc, cancelled, frame>>

AsymmetryNext ==
  \/ CallMeasureInformationAsymmetry

AsymmetrySpec == MetricsInit /\ [][AsymmetryNext]_vars

(***************************************************************************)
(* compute_frustration_index on a small graph, one bipartition at a time:  *)
(* the loop of _compute_frustration_exact (lines 90-94) with its locals    *)
(* mask and min_frustration in `frame`.  `cancelled` is the caller's       *)
(* cancellation signal for the running call; it is raised by the caller    *)
(* and no line of the analyzers reads it.                                  *)
(***************************************************************************)
\* The caller signals cancellation while the enumeration runs.
SignalCancel ==
  /\ pc = "exact"
  /\ ~cancelled
  /\ cancelled' = TRUE
  /\ UNCHANGED <<graph, digraph, layers, all_nodes, pc, result, frame>>

\* Lines 70-75 and 85-87: a graph of 1..20 nodes enters the enumeration.
BeginFrustrationExact ==
  /\ pc = "ready"
  /\ NumberOfNodes(graph) # 0
  /\ NumberOfNodes(graph) <= ExactLimit
  /\ pc' = "exact"
  /\ frame' = [op |-> "_compute_frustration_exact",
               mask |-> 0, min_frustration |-> Infinity]
  /\ UNCHANGED <<graph, digraph, layers, all_nodes, result, cancelled>>

\* One iteration of `for mask in range(2 ** n)`, lines 90-93.
StepFrustrationExact ==
  /\ pc = "exact"
  /\ frame.mask < Pow2(NumberOfNodes(graph))
  /\ frame' = [frame EXCEPT
                 !.mask = @ + 1,
                 !.min_frustration =
                   MinFrustration(@, CountFrustratedEdges(graph,
                                        MaskPartition(graph, frame.mask)))]
  /\ UNCHANGED <<graph, digraph, layers, all_nodes, pc, result, cancelled>>

\* return int(min_frustration), line 96; the call is over and with it its
\* cancellation signal.
ReturnFrustrationExact ==
  /\ pc = "exact"
  /\ frame.mask >= Pow2(NumberOfNodes(graph))
  /\ result' = [op |-> "compute_frustration_index", error |-> "",
                frustration |-> frame.min_frustration]
  /\ pc' = "ready"
  /\ frame' = NoFrame
  /\ cancelled' = FALSE
  /\ UNCHANGED <<graph, digraph, layers, all_nodes>>

CancelNext ==
  \/ BeginFrustrationExact
  \/ StepFrustrationExact
  \/ ReturnFrustrationExact
  \/ SignalCancel

CancelSpec == Init /\ [][CancelNext]_vars

(***************************************************************************)
(* AdvancedInstitutionalMetrics._simulate_cascade.  The returned list      *)
(* `activated` is kept as the sequence of its waves, <<{start}, wave 1,    *)
(* ...>>: activated.extend(next_wave) appends the nodes of a wave in the   *)
(* iteration order of a set, which the language leaves open.  A threshold  *)
(* is a ratio <<a, b>> with b > 0.                                         *)
(***************************************************************************)
\* graph.predecessors(v): a self-loop makes v its own predecessor.
Predecessors(d, v) == {e[1] : e \in {x \in d.edges : x[2] = v}}

Thresholds == {<<0, 1>>, <<1, 2>>, <<1, 1>>}

\* max_steps: the default and a smaller cap.
DefaultMaxSteps == 10
StepCaps == {1, DefaultMaxSteps}

\* Every node activated so far: the union of the waves.
ActivatedOf(waves) == UNION {waves[i] : i \in DOMAIN waves}

\* Mutant of NextWave: `if successor not in activated` is left out.
NextWaveRevisiting(d, threshold, activated, current) ==
  {successor \in UNION {Successors(d, node) : node \in current} :
     LET active_predecessors ==
           Cardinality({p \in Predecessors(d, successor) : p \in activated})
         all_predecessors == InDegree(d, successor)
     IN /\ all_predecessors > 0
        /\ active_predecessors * threshold[2] >= threshold[1] * all_predecessors}

\* Mutant of NextWave: the active predecessors are counted among the nodes
\* of the current wave only.
NextWaveCurrentOnly(d, threshold, activated, current) ==
  {successor \in UNION {Successors(d, node) : node \in current} :
     /\ successor \notin activated
     /\ LET active_predecessors ==
              Cardinality({p \in Predecessors(d, successor) : p \in current})
            all_predecessors == InDegree(d, successor)
        IN /\ all_predecessors > 0
           /\ active_predecessors * threshold[2] >= threshold[1] * all_predecessors}

\* Lines 205-216: the successors of the current wave that are not activated
\* and whose share of activated predecessors reaches the threshold.
NextWave(d, threshold, activated, current) ==
  {successor \in UNION {Successors(d, node) : node \in current} :
     /\ successor \notin activated
     /\ LET active_predecessors ==
              Cardinality({p \in Predecessors(d, successor) : p \in activated})
            all_predecessors == InDegree(d, successor)
        IN /\ all_predecessors > 0
           /\ active_predecessors * threshold[2] >= threshold[1] * all_predecessors}

\* Mutant of CascadeLoop: the loop runs range(max_steps + 1).
RECURSIVE CascadeLoopExtraStep(_, _, _, _, _)
CascadeLoopExtraStep(d, threshold, waves, current, steps) ==
  IF steps < 0 THEN [waves |-> waves, stopped |-> "max_steps"]
  ELSE LET next_wave == NextWave(d, threshold, ActivatedOf(waves), current)
       IN IF next_wave = {} THEN [waves |-> waves, stopped |-> "empty_wave"]
          ELSE CascadeLoopExtraStep(d, threshold, waves \o <<next_wave>>, next_wave,
                                    steps - 1)

\* for _ in range(max_steps), lines 204-222, with `steps` iterations left.
\* stopped tells how the loop was left: by the break of line 219 or by the
\* end of the range.
RECURSIVE CascadeLoop(_, _, _, _, _)
CascadeLoop(d, threshold, waves, current, steps) ==
  IF steps = 0 THEN [waves |-> waves, stopped |-> "max_steps"]
  ELSE LET next_wave == NextWave(d, threshold, ActivatedOf(waves), current)
       IN IF next_wave = {} THEN [waves |-> waves, stopped |-> "empty_wave"]
          ELSE CascadeLoop(d, threshold, waves \o <<next_wave>>, next_wave, steps - 1)

\* graph.successors raises NetworkXError for a node that is not in the graph.
SimulateCascade(d, start_node, threshold, max_steps) ==
  IF start_node \notin d.nodes
  THEN [op |-> "_simulate_cascade", error |-> "NetworkXError"]
  ELSE LET run == CascadeLoop(d, threshold, <<{start_node}>>, {start_node}, max_steps)
       IN [op |-> "_simulate_cascade", error |-> "",
           start_node |-> start_node, threshold |-> threshold,
           max_steps |-> max_steps,
           waves |-> run.waves, stopped |-> run.stopped]

\* One call on an analyzer (pc = "returned" after it).  The call reads the
\* graph and its arguments only, so a second call on the same analyzer would
\* reach the states a first call reaches.
CallSimulateCascade(start_node, threshold, max_steps) ==
  /\ pc = "metrics"
  /\ result' = SimulateCascade(digraph, start_node, threshold, max_steps)
  /\ pc' = "returned"
  /\ UNCHANGED <<graph, digraph, layers, all_nodes, cancelled, frame>>

CascadeNext ==
  \/ \E start_node \in 1..(MaxDiNodes + 1) :
       \E threshold \in Thresholds : \E max_steps \in StepCaps :
         CallSimulateCascade(start_node, threshold, max_steps)

CascadeSpec == MetricsInit /\ [][CascadeNext]_vars

(***************************************************************************)
(* AdvancedInstitutionalMetrics.detect_latent_subgraphs.  A latent         *)
(* subgraph has more than 2 nodes beside a main component at least as      *)
(* large, so the graphs here have up to MaxLatentNodes nodes; their edges  *)
(* join a node to itself or to the node numbered next to it, in either     *)
(* direction.  Edges carry no 'weight' attribute: .get('weight', 1.0)      *)
(* gives 1.0.                                                              *)
(***************************************************************************)
LineEdges(n) == {e \in (1..n) \X (1..n) : Abs(e[1] - e[2]) <= 1}

\* The graphs of at most max_nodes nodes and max_edges edges.
LineDigraphs(max_nodes, max_edges) ==
  UNION { {[nodes |-> 1..n, edges |-> E]
             : E \in {X \in SUBSET LineEdges(n) : Cardinality(X) <= max_edges}}
          : n \in 0..max_nodes }

\* The graph with every edge in both directions.
Undirected(d) == [nodes |-> d.nodes, edges |-> d.edges \cup Reverse(d).edges]

\* nx.weakly_connected_components: the component of v.
WeakComponent(d, v) == ReachableWithin(Undirected(d), {v}, Cardinality(d.nodes))

WeaklyConnectedComponents(d) == {WeakComponent(d, v) : v \in d.nodes}

\* The least node of a component: the components are listed in the order in
\* which graph.nodes() meets them.
LeastOf(c) == CHOOSE v \in c : \A w \in c : v <= w

\* max(components, key=len) if components else set(): the first of the
\* largest components.
MainComponent(components) ==
  IF components = {} THEN {}
  ELSE CHOOSE c \in components :
         \A other \in components :
           \/ Cardinality(other) < Cardinality(c)
           \/ Cardinality(other) = Cardinality(c) /\ LeastOf(c) <= LeastOf(other)

\* Mutant of LatentSubgraphs: len(c) >= 2 for len(c) > 2.
LatentSubgraphsOfTwo(components, main_component) ==
  {c \in components : c # main_component /\ Cardinality(c) >= 2}

\* Line 154.
LatentSubgraphs(components, main_component) ==
  {c \in components : c # main_component /\ Cardinality(c) > 2}

\* Mutant of TriggerNodes: `if neighbors:` for `if neighbors & main_component:`.
TriggerNodesAnyNeighbor(d, latent_subgraphs, main_component) ==
  {node \in UNION latent_subgraphs :
     (Predecessors(d, node) \cup Successors(d, node)) # {}}

\* Lines 157-162.
TriggerNodes(d, latent_subgraphs, main_component) ==
  {node \in UNION latent_subgraphs :
     LET neighbors == Predecessors(d, node) \cup Successors(d, node)
     IN neighbors \cap main_component # {}}

\* Lines 168-178 for one subgraph: 1 - np.mean(edges_to_main) over the edges
\* from a predecessor in the main component, each of weight 1.0; 1.0 when
\* there is none.
ActivationThreshold(d, subgraph, main_component) ==
  LET edges_to_main == {e \in d.edges : e[2] \in subgraph /\ e[1] \in main_component}
  IN IF edges_to_main # {} THEN <<0, 1>> ELSE <<1, 1>>

\* trigger_nodes[:5]
TriggerCap == 5

\* The outcomes of detect_latent_subgraphs.  Two things depend on the
\* iteration order of a set, which the language leaves open: the key
\* str(list(subgraph)[0]) of a threshold (any node of the subgraph) and,
\* beyond TriggerCap trigger nodes, which of them are simulated.
DetectLatentSubgraphs(d, activation_threshold) ==
  LET components == WeaklyConnectedComponents(d)
      main_component == MainComponent(components)
      latent_subgraphs == LatentSubgraphs(components, main_component)
      trigger_nodes == TriggerNodes(d, latent_subgraphs, main_component)
      taken == IF Cardinality(trigger_nodes) < TriggerCap
               THEN Cardinality(trigger_nodes) ELSE TriggerCap
  IN {[op |-> "detect_latent_subgraphs", error |-> "",
       main_component |-> main_component,
       latent_subgraphs |-> latent_subgraphs,
       activation_thresholds |->
         [k \in {key[c] : c \in latent_subgraphs} |->
            LET c == CHOOSE s \in latent_subgraphs : k \in s
            IN ActivationThreshold(d, c, main_component)],
       trigger_nodes |-> trigger_nodes,
       activation_cascades |->
         {cascade \in {SimulateCascade(d, trigger, activation_threshold,
                                       DefaultMaxSteps).waves : trigger \in first} :
            Cardinality(ActivatedOf(cascade)) > 1}]
      : <<key, first>> \in
          {f \in [latent_subgraphs -> d.nodes] : \A c \in latent_subgraphs : f[c] \in c}
          \X {S \in SUBSET trigger_nodes : Cardinality(S) = taken} }

\* One call on an analyzer (pc = "returned" after it).  The call reads the
\* graph only, so a second call on the same analyzer would reach the states a
\* first call reaches.
CallDetectLatentSubgraphs(activation_threshold) ==
  /\ pc = "metrics"
  /\ \E r \in DetectLatentSubgraphs(digraph, activation_threshold) : result' = r
  /\ pc' = "returned"
  /\ UNCHANGED <<graph, digraph, layers, all_nodes, cancelled, frame>>

LatentInit ==
  /\ graph = EmptyGraph
  /\ digraph \in LineDigraphs(MaxLatentNodes, MaxLatentEdges)
  /\ layers = EmptyLayers
  /\ all_nodes = {}
  /\ pc = "metrics"
  /\ result = NoResult
  /\ cancelled = FALSE
  /\ frame = NoFrame

LatentNext ==
  \/ \E activation_threshold \in Thresholds :
       CallDetectLatentSubgraphs(activation_threshold)

LatentSpec == LatentInit /\ [][LatentNext]_vars

(***************************************************************************)
(* SignedNetworkAnalyzer._count_frustrated_edges called with a bipartition *)
(* of the caller's choice: a set of node identifiers, of which only the    *)
(* membership of the endpoints of the edges is read.                       *)
(***************************************************************************)
\* One call on an analyzer (pc = "returned" after it).  The call reads the
\* graph and its argument only.
CallCountFrustratedEdges(partition) ==
  /\ pc = "ready"
  /\ result' = [op |-> "_count_frustrated_edges", error |-> "",
                partition |-> partition,
                frustrated |-> CountFrustratedEdges(graph, partition)]
  /\ pc' = "returned"
  /\ UNCHANGED <<graph, digraph, layers, all_nodes, cancelled, frame>>

SymmetryNext ==
  \/ \E partition \in SUBSET (1..MaxNodes) : CallCountFrustratedEdges(partition)
  \/ CallComputeFrustrationIndex

SymmetrySpec == Init /\ [][SymmetryNext]_vars

(***************************************************************************)
(* FrameSpec: an analyzer of any of the three classes and every query of   *)
(* the model, called in any order.  The graphs are small (MaxFrameNodes,   *)
(* MaxFrameEdges) since every query is tried in every state.               *)
(***************************************************************************)
MaxFrameNodes == 2
MaxFrameEdges == 1

\* The nodes of the layers of a multiplex analyzer.
MaxFrameLayerNodes == 1

FrameSignedGraphs ==
  UNION { UNION { {[nodes |-> 1..n, data |-> d] : d \in [E -> {Attr(1), Attr(-1)}]}
                  : E \in {X \in SUBSET EdgeKeys(1..n) : Cardinality(X) <= MaxFrameEdges} }
          : n \in 0..MaxFrameNodes }

FrameDigraphs ==
  UNION { {[nodes |-> 1..n, edges |-> E]
             : E \in {X \in SUBSET ((1..n) \X (1..n)) : Cardinality(X) <= MaxFrameEdges}}
          : n \in 0..MaxFrameNodes }

FrameInit ==
  /\ result = NoResult
  /\ cancelled = FALSE
  /\ frame = NoFrame
  /\ \/ /\ graph \in FrameSignedGraphs
        /\ digraph = EmptyDigraph
        /\ layers = EmptyLayers
        /\ all_nodes = {}
        /\ pc = "ready"
     \/ /\ graph = EmptyGraph
        /\ digraph \in FrameDigraphs
        /\ layers = EmptyLayers
        /\ all_nodes = {}
        /\ pc = "metrics"
     \/ /\ graph = EmptyGraph
        /\ digraph = EmptyDigraph
        /\ layers \in LayerMaps(MaxFrameLayerNodes, MaxFrameEdges)
        /\ all_nodes = GetAllNodes(layers)
        /\ pc = "centrality"

FrameNext ==
  \/ CallComputeFrustrationIndex
  \/ CallAnalyzeTriangles
  \/ CallFindFrustratedEdges
  \/ CallComputeStructuralBalance
  \/ \E partition \in SUBSET (1..MaxFrameNodes) : CallCountFrustratedEdges(partition)
  \/ CallDetectEndogenousRisk
  \/ CallAnalyzePathDependence
  \/ \E constraint_nodes \in {c \in ConstraintLists : Len(c) <= 1} :
       CallAnalyzeConstraintDominance(constraint_nodes)
  \/ CallAnalyzeStructuralOptionality
  \/ CallMeasureInformationAsymmetry
  \/ \E activation_threshold \in Thresholds :
       CallDetectLatentSubgraphs(activation_threshold)
  \/ \E start_node \in 1..MaxFrameNodes : \E threshold \in Thresholds :
       CallSimulateCascade(start_node, threshold, DefaultMaxSteps)
  \/ \E node \in 1..(MaxFrameLayerNodes + 1) : CallComputeVersatility(node)
  \/ \E node \in 1..(MaxFrameLayerNodes + 1) : CallComputeParticipationCoefficient(node)
  \/ \E node \in 1..(MaxFrameLayerNodes + 1) : CallComputeNodeAnalysis(node)
  \/ \E layer_name \in QueryNames : CallComputeLayerCentralities(layer_name)
  \/ \E w \in InterLayerWeights :
       CallComputeMultiplexPagerank(w, <<17, 20>>, 1, <<1, 1000000>>)

FrameSpec == FrameInit /\ [][FrameNext]_vars

(***************************************************************************)
(* The claims.                                                             *)
(***************************************************************************)
\* The number of frustrated edges of g under the bipartition (A, nodes \ A),
\* by the definition of the frustration index: a +1 edge with endpoints in
\* different parts, or a -1 edge with endpoints in the same part.
FrustratedUnder(g, A) ==
  Cardinality({e \in Edges(g) :
                 \/ g.data[e].sign = 1 /\ (\E u \in e : u \in A) /\ (\E v \in e : v \notin A)
                 \/ g.data[e].sign = -1 /\ (e \subseteq A \/ e \cap A = {})})

IsMinimumOverBipartitions(g, m) ==
  /\ \E A \in SUBSET g.nodes : FrustratedUnder(g, A) = m
  /\ \A A \in SUBSET g.nodes : FrustratedUnder(g, A) >= m

\* C1: for a graph of at most 20 nodes compute_frustration_index returns the
\* minimum, over all bipartitions of the node set, of the number of frustrated
\* edges, and 0 for the graph without nodes.
C1_ExactFrustrationIsMinimum ==
  (result.op = "compute_frustration_index" /\ NumberOfNodes(graph) <= 20) =>
    /\ result.error = ""
    /\ IsMinimumOverBipartitions(graph, result.frustration)
    /\ (NumberOfNodes(graph) = 0 => result.frustration = 0)

\* C1 witness: the index of a three-node graph whose best bipartition still
\* leaves a frustrated edge, although some bipartition leaves three.
C1_Witness ==
  /\ result.op = "compute_frustration_index"
  /\ NumberOfNodes(graph) = 3
  /\ result.frustration = 1
  /\ \E A \in SUBSET graph.nodes : FrustratedUnder(graph, A) = 3

FlipSign(g, e) == [g EXCEPT !.data[e].sign = -@]

\* C2: flipping the sign of one edge changes the frustration index by at most 1.
C2_FlipChangesIndexByAtMostOne ==
  result.op = "compute_frustration_index" =>
    \A e \in Edges(graph) : \A f \in ComputeFrustrationIndex(FlipSign(graph, e)) :
      Abs(f - result.frustration) <= 1

\* C2 witness: an index that one flip raises, another flip lowers and a third
\* leaves as it is.
C2_Witness ==
  /\ result.op = "compute_frustration_index"
  /\ \E e \in Edges(graph) :
       ComputeFrustrationIndex(FlipSign(graph, e)) = {result.frustration + 1}
  /\ \E e \in Edges(graph) :
       ComputeFrustrationIndex(FlipSign(graph, e)) = {result.frustration - 1}
  /\ \E e \in Edges(graph) :
       ComputeFrustrationIndex(FlipSign(graph, e)) = {result.frustration}

\* C3 (as claimed): in the result of compute_structural_balance the frustration
\* index is 0 exactly when analyze_triangles found no frustrated triangle and
\* the spectral bipartition left no frustrated edge; the index is never
\* negative and never above the number of edges.
C3_ZeroIffTrianglesAndSpectralClean ==
  (result.op = "compute_structural_balance" /\ result.error = "") =>
    /\ (result.frustration_index = 0) <=>
         (result.triangles.frustrated_triangles = 0 /\ result.frustrated_edges = {})
    /\ result.frustration_index >= 0
    /\ result.frustration_index <= Cardinality(Edges(graph))

\* The triangles of g: the sets of three distinct nodes joined pairwise.
TrueTriangles(g) ==
  {T \in SUBSET g.nodes :
     /\ Cardinality(T) = 3
     /\ \A u \in T : \A v \in T : u # v => {u, v} \in Edges(g)}

NegativeEdges(g, T) ==
  Cardinality({e \in Edges(g) : e \subseteq T /\ Cardinality(e) = 2 /\ g.data[e].sign = -1})

\* C4 (as claimed): total_triangles is the number of sets of three distinct
\* nodes whose three pairwise edges exist.
C4_TotalCountsEachTriangleOnce ==
  result.op = "analyze_triangles" =>
    result.triangles.total_triangles = Cardinality(TrueTriangles(graph))

\* C5 (as claimed): frustrated_triangles counts the triangles with 1 or 3
\* negative edges, balanced_triangles those with 0 or 2, the two add up to
\* total_triangles, and balance_ratio is balanced / total, 1.0 without triangles.
C5_BalancedAndFrustratedCounts ==
  result.op = "analyze_triangles" =>
    LET t == result.triangles
    IN /\ t.frustrated_triangles =
            Cardinality({T \in TrueTriangles(graph) : NegativeEdges(graph, T) \in {1, 3}})
       /\ t.balanced_triangles =
            Cardinality({T \in TrueTriangles(graph) : NegativeEdges(graph, T) \in {0, 2}})
       /\ t.balanced_triangles + t.frustrated_triangles = t.total_triangles
       /\ IF t.total_triangles = 0 THEN t.balance_ratio = <<1, 1>>
          ELSE t.balance_ratio = <<t.balanced_triangles, t.total_triangles>>

HasBadSign(g) == \E e \in Edges(g) : ~g.data[e].has \/ ~(g.data[e].sign \in {1, -1})

\* C6: the constructor fails with ValueError exactly when some edge has no
\* 'sign' or a sign other than +1 and -1, so an analyzer that exists holds a
\* graph whose edges are all signed +1 or -1.
C6_ConstructionFailsIffBadSign ==
  /\ result.op = "__init__" => ((pc = "ValueError") <=> HasBadSign(graph))
  /\ result.op = "__init__" => pc \in {"ready", "ValueError"}
  /\ pc = "ready" => \A e \in Edges(graph) : graph.data[e].has /\ graph.data[e].sign \in {1, -1}

\* C6 witness: a constructor call refused for a graph that has a well-signed
\* edge beside an edge without sign.
C6_Witness ==
  /\ result.op = "__init__"
  /\ pc = "ValueError"
  /\ \E e \in Edges(graph) : ~graph.data[e].has
  /\ \E e \in Edges(graph) : graph.data[e].has /\ graph.data[e].sign \in {1, -1}

\* The sign C7 gives a record: +1 and "POSITIVE" are +1, -1 and "NEGATIVE" are
\* -1, anything else is +1.
ClaimedSign(value) ==
  IF value = IntValue(-1) \/ value = StrValue("NEGATIVE") THEN -1 ELSE 1

\* C7 (as claimed): every edge record is stored with the sign ClaimedSign gives
\* its 'sign' value, which is +1 or -1.
C7_SignMapping ==
  result.op = "create_signed_graph_from_edges" =>
    /\ result.error = ""
    /\ graph.data[result.edge].has
    /\ graph.data[result.edge].sign = ClaimedSign(result.value)
    /\ graph.data[result.edge].sign \in {1, -1}

\* C8 (as claimed): with fewer than two nodes find_frustrated_edges and
\* compute_structural_balance return; the bipartition puts every node in part
\* A; compute_structural_balance of the empty graph is balanced, with index 0,
\* no frustrated edge, ratio 1.0 and no cluster.
C8_SmallGraphsDoNotRaise ==
  (NumberOfNodes(graph) < 2
     /\ result.op \in {"find_frustrated_edges", "compute_structural_balance"}) =>
    /\ result.error = ""
    /\ result.op = "find_frustrated_edges" => result.partition = graph.nodes
    /\ (result.op = "compute_structural_balance" /\ NumberOfNodes(graph) = 0) =>
         /\ result.is_balanced
         /\ result.frustration_index = 0
         /\ result.frustrated_edges = {}
         /\ result.balance_ratio = <<1, 1>>
         /\ result.positive_clusters = {}
         /\ result.negative_clusters = {}

\* No node reaches itself along one or more edges of d.
IsDAG(d) ==
  \A v \in d.nodes : v \notin ReachableWithin(d, Successors(d, v), Cardinality(d.nodes))

\* C9 (as claimed): on a directed acyclic graph every node's risk is 0.
C9_DagRiskIsZero ==
  (result.op = "detect_endogenous_risk" /\ result.error = "" /\ IsDAG(digraph)) =>
    \A v \in digraph.nodes : result.risk_scores[v][1] = 0

\* C9 (amended): on a directed acyclic graph no node takes part in a cycle, so
\* a returned risk is 0.3 * in_degree(v) / (largest in-degree): 0 exactly for
\* the nodes without incoming edge.
C9_DagRiskIsInDegreeShare ==
  (result.op = "detect_endogenous_risk" /\ result.error = "" /\ IsDAG(digraph)) =>
    \A v \in digraph.nodes :
      LET r == result.risk_scores[v]
          I == MaxOf({InDegree(digraph, w) : w \in digraph.nodes})
      IN /\ r[2] > 0
         /\ r[1] * 10 * I = 3 * InDegree(digraph, v) * r[2]
         /\ (r[1] = 0 <=> InDegree(digraph, v) = 0)

\* C9 witness: the graph 1 -> 2 -> 3, 1 -> 3 with risks 0, 0.15 and 0.3.
C9_Witness ==
  /\ result.op = "detect_endogenous_risk"
  /\ result.error = ""
  /\ digraph = [nodes |-> {1, 2, 3}, edges |-> {<<1, 2>>, <<2, 3>>, <<1, 3>>}]
  /\ result.risk_scores[1][1] = 0
  /\ result.risk_scores[2][1] * 100 = 15 * result.risk_scores[2][2]
  /\ result.risk_scores[3][1] * 10 = 3 * result.risk_scores[3][2]

\* C10 (as claimed): detect_endogenous_risk returns a risk for every node of
\* every directed graph; no division by zero occurs.
C10_RiskIsTotal ==
  result.op = "detect_endogenous_risk" =>
    /\ result.error = ""
    /\ DOMAIN result.risk_scores = digraph.nodes
    /\ \A v \in digraph.nodes : result.risk_scores[v][2] # 0

\* C11 (as claimed): for the graph 1 -> 2 -> 3, 1 -> 3 analyze_path_dependence
\* returns the critical junctions {1}, the single-junction dependents {2, 3}
\* and the lock-in score 2/3.
C11_DagLockIn ==
  (result.op = "analyze_path_dependence"
     /\ digraph = [nodes |-> {1, 2, 3}, edges |-> {<<1, 2>>, <<2, 3>>, <<1, 3>>}]) =>
    /\ result.critical_junctions = {1}
    /\ result.path_dependent_nodes = {2, 3}
    /\ result.lock_in_score[1] * 3 = 2 * result.lock_in_score[2]

\* The enumerated decision-to-outcome paths of at most 5 edges, stated without
\* the code's loops: a path starts where out-degree exceeds in-degree and ends
\* where in-degree exceeds out-degree.
ClaimedPaths(d) ==
  {path \in UNION {[1..k -> d.nodes] : k \in 2..Cardinality(d.nodes)} :
     /\ Len(path) <= 6
     /\ OutDegree(d, path[1]) > InDegree(d, path[1])
     /\ InDegree(d, path[Len(path)]) > OutDegree(d, path[Len(path)])
     /\ \A i \in DOMAIN path : \A j \in DOMAIN path : i # j => path[i] # path[j]
     /\ \A i \in 1..(Len(path) - 1) : <<path[i], path[i + 1]>> \in d.edges}

\* C12 (as claimed): for every constraint list and every c of it the returned
\* score of c is (paths that contain c) / (paths), 0 without paths; every
\* score lies in [0, 1].
C12_DominanceScoreIsPathShare ==
  (result.op = "analyze_constraint_dominance" /\ result.error = "") =>
    \A i \in DOMAIN result.constraint_nodes :
      LET c == result.constraint_nodes[i]
          score == result.dominance_scores[c]
          total == Cardinality(ClaimedPaths(digraph))
          with == Cardinality({path \in ClaimedPaths(digraph) : OnPath(c, path)})
      IN /\ score[2] > 0
         /\ IF total > 0 THEN score[1] * total = with * score[2] ELSE score[1] = 0
         /\ 0 <= score[1] /\ score[1] <= score[2]

\* The nodes at shortest-path distance exactly k >= 1 from v; v itself is at
\* distance 0 and is in none of these sets.
AtDistance(d, v, k) ==
  (ReachableWithin(d, {v}, k) \ ReachableWithin(d, {v}, k - 1)) \ {v}

\* C13 (as claimed): opt(v) = (3*r1 + 2*r2 + r3) / (6 * (|V| - 1)) with rk the
\* number of nodes at distance exactly k from v, and opt(v) = 0 when |V| <= 1.
C13_OptionalityFormula ==
  result.op = "analyze_structural_optionality" =>
    \A v \in digraph.nodes :
      LET opt == result.optionality[v]
          r1 == Cardinality(AtDistance(digraph, v, 1))
          r2 == Cardinality(AtDistance(digraph, v, 2))
          r3 == Cardinality(AtDistance(digraph, v, 3))
          n == Cardinality(digraph.nodes)
      IN /\ opt[2] > 0
         /\ IF n <= 1 THEN opt[1] = 0
            ELSE opt[1] * 6 * (n - 1) = (3 * r1 + 2 * r2 + r3) * opt[2]

\* add_edge(v, w) on a directed graph whose nodes include v and w.
WithEdge(d, v, w) == [d EXCEPT !.edges = @ \cup {<<v, w>>}]

\* C14: the optionality of a node without outgoing edge is 0, and adding one
\* outgoing edge at v, the node set unchanged, never decreases opt(v).
C14_SinkZeroAndMonotone ==
  result.op = "analyze_structural_optionality" =>
    /\ \A v \in digraph.nodes :
         OutDegree(digraph, v) = 0 => result.optionality[v][1] = 0
    /\ \A v \in digraph.nodes : \A w \in digraph.nodes :
         LET before == result.optionality[v]
             after == AnalyzeStructuralOptionality(WithEdge(digraph, v, w))[v]
         IN after[1] * before[2] >= before[1] * after[2]

\* C14 witness: the chain 1 -> 2 -> 3 -> 4, where 4 is a sink of optionality 0,
\* opt(1) = 6/18, and the edge 1 -> 4 raises opt(1) to 8/18.
C14_Witness ==
  /\ result.op = "analyze_structural_optionality"
  /\ digraph = [nodes |-> 1..4, edges |-> {<<1, 2>>, <<2, 3>>, <<3, 4>>}]
  /\ result.optionality[4] = <<0, 18>>
  /\ result.optionality[1] = <<6, 18>>
  /\ AnalyzeStructuralOptionality(WithEdge(digraph, 1, 4))[1] = <<8, 18>>

PerNodeQueries ==
  {"compute_versatility", "compute_participation_coefficient", "compute_node_analysis"}

\* C15 (as claimed): a per-node query for a node that is in no layer fails with
\* an unknown-node error and returns no value.
C15_UnknownNodeFails ==
  (result.op \in PerNodeQueries /\ result.node \notin all_nodes) =>
    result.error = "unknown-node"

LayerKeys(ls) == {ls[i].name : i \in DOMAIN ls}

\* C16: compute_layer_centralities fails with the unknown-layer error
\* (ValueError) exactly when the name is no key of the layer map; the failed
\* call computes nothing, and no call changes the layers or the universe.
C16_UnknownLayerFails ==
  /\ [](result.op = "compute_layer_centralities" =>
          /\ (result.error = "ValueError") <=> (result.layer_name \notin LayerKeys(layers))
          /\ result.error = "ValueError" => DOMAIN result = {"op", "layer_name", "error"})
  /\ [][result'.op = "compute_layer_centralities" =>
          layers' = layers /\ all_nodes' = all_nodes]_vars

\* C16 witness: the unknown-layer error of an analyzer that has two layers.
C16_Witness ==
  /\ result.op = "compute_layer_centralities"
  /\ result.error = "ValueError"
  /\ Len(layers) = 2
  /\ result.layer_name \notin LayerKeys(layers)
  /\ all_nodes # {}

\* C17 (as claimed): for every layer map and every node, compute_versatility
\* returns (layers that contain the node) / |L|, a value in [0, 1] that is 1
\* exactly when the node is in every layer.
C17_VersatilityIsLayerShare ==
  result.op = "compute_versatility" =>
    LET count == Cardinality({i \in DOMAIN layers : result.node \in layers[i].nodes})
    IN /\ result.error = ""
       /\ result.value[2] > 0
       /\ result.value[1] * Len(layers) = count * result.value[2]
       /\ 0 <= result.value[1] /\ result.value[1] <= result.value[2]
       /\ (result.value[1] = result.value[2]) <=>
            (\A i \in DOMAIN layers : result.node \in layers[i].nodes)

\* The degree of v in a layer: its edges to other nodes, and 2 for a self-loop;
\* 0 in a layer that does not contain v.
LayerDegree(G, v) ==
  IF v \in G.nodes
  THEN Cardinality({e \in G.edges : v \in e /\ Cardinality(e) = 2})
         + 2 * Cardinality({e \in G.edges : e = {v}})
  ELSE 0

\* C18: the participation coefficient lies in [0, 1]; it is 0 when |L| <= 1,
\* when the node's total degree T is 0 and when all its edges lie in one layer;
\* otherwise it is (|L| / (|L| - 1)) * (1 - sum over layers of (d_l / T)^2).
C18_ParticipationCoefficient ==
  result.op = "compute_participation_coefficient" =>
    LET L == Len(layers)
        d == [i \in DOMAIN layers |-> LayerDegree(layers[i], result.node)]
        T == SumSeq(d, L)
        squares == SumSeq([i \in DOMAIN layers |-> d[i] * d[i]], L)
        P == result.value
    IN /\ result.error = ""
       /\ P[2] > 0 /\ 0 <= P[1] /\ P[1] <= P[2]
       /\ IF L <= 1 \/ T = 0 \/ \E i \in DOMAIN layers : d[i] = T
          THEN P[1] = 0
          ELSE P[1] * (L - 1) * T * T = L * (T * T - squares) * P[2]

\* C18 witness: a node of degree 2 in one layer and 1 in the other, with
\* coefficient 2 * (1 - 5/9) = 8/9.
C18_Witness ==
  /\ result.op = "compute_participation_coefficient"
  /\ Len(layers) = 2
  /\ {LayerDegree(layers[1], result.node), LayerDegree(layers[2], result.node)} = {1, 2}
  /\ result.value[1] * 9 = 8 * result.value[2]

\* The index of the slot (l, v) of the supra-adjacency matrix: layer l of the
\* layer map (counted from 1), node v of the universe.
Slot(l, v) == (l - 1) * Cardinality(all_nodes) + NodeIdx(all_nodes, v) + 1

\* C19: in the supra-adjacency matrix S the entry S[(l, v), (l', v)], l # l',
\* is inter_layer_weight when v is a node of layer l and 0 when it is not; the
\* block (l, l) has 1 at (u, v) and (v, u) for each edge u-v of layer l; every
\* other entry is 0.  (S is stored multiplied by the weight's denominator.)
C19_SupraAdjacency ==
  (result.op = "compute_multiplex_pagerank" /\ all_nodes # {}) =>
    LET S == result.supra_A
        w == result.inter_layer_weight
        size == Cardinality(all_nodes) * Len(layers)
    IN /\ Len(S) = size
       /\ \A i \in 1..size : Len(S[i]) = size
       /\ \A l \in DOMAIN layers : \A m \in DOMAIN layers :
            \A u \in all_nodes : \A v \in all_nodes :
              S[Slot(l, u)][Slot(m, v)] =
                IF l # m
                THEN IF u = v /\ v \in layers[l].nodes THEN w[1] ELSE 0
                ELSE IF {u, v} \in layers[l].edges THEN w[2] ELSE 0

\* C19 witness: a node that is in the first layer only, linked from its slot
\* in the first layer to its slot in the second and not back, beside an
\* intra-layer edge.
C19_Witness ==
  /\ result.op = "compute_multiplex_pagerank"
  /\ Len(layers) = 2
  /\ result.inter_layer_weight = <<1, 2>>
  /\ \E v \in all_nodes :
       /\ v \in layers[1].nodes /\ v \notin layers[2].nodes
       /\ result.supra_A[Slot(1, v)][Slot(2, v)] = 1
       /\ result.supra_A[Slot(2, v)][Slot(1, v)] = 0
  /\ \E u \in all_nodes : \E v \in all_nodes :
       /\ u # v /\ {u, v} \in layers[1].edges
       /\ result.supra_A[Slot(1, u)][Slot(1, v)] = 2
       /\ result.supra_A[Slot(1, v)][Slot(1, u)] = 2

\* C20: with a non-empty universe compute_multiplex_pagerank returns one
\* non-negative value per node of the universe and the values sum to 1; with
\* an empty universe it returns the empty result.
C20_PagerankSumsToOne ==
  result.op = "compute_multiplex_pagerank" =>
    /\ result.error = ""
    /\ IF all_nodes = {} THEN result.pagerank = <<>>
       ELSE LET den == result.pagerank[CHOOSE v \in all_nodes : TRUE][2]
            IN /\ DOMAIN result.pagerank = all_nodes
               /\ den > 0
               /\ \A v \in all_nodes :
                    result.pagerank[v][2] = den /\ result.pagerank[v][1] >= 0
               /\ SumOf(all_nodes, [v \in all_nodes |-> result.pagerank[v][1]]) = den

\* C20 witness: a result with unequal values for a layer map in which a node
\* is missing from a layer, so that its slot there has an all-zero row.
C20_Witness ==
  /\ result.op = "compute_multiplex_pagerank"
  /\ Len(layers) = 2
  /\ \E v \in all_nodes : v \notin layers[1].nodes
  /\ \E u \in all_nodes : \E v \in all_nodes :
       /\ result.pagerank[u][1] > result.pagerank[v][1]
       /\ result.pagerank[v][1] > 0

\* The Gini coefficient of the values of s (non-negative integers, one per
\* node of S) by the mean absolute difference: the sum of |s[v] - s[w]| over
\* all ordered pairs, over 2 * n * sum(s).
MeanDifferenceGini(S, s) ==
  <<SumOf(S \X S, [p \in S \X S |-> Abs(s[p[1]] - s[p[2]])]),
    2 * Cardinality(S) * SumOf(S, s)>>

\* C21: the Gini coefficient returned by measure_information_asymmetry lies
\* in [0, 1]; it is 0 when the graph is empty, when every score is 0 and when
\* all nodes have the same access score; otherwise it is the sum over the
\* ascending scores of (2i - n + 1) * s_i over n * sum(s), which is the mean
\* absolute difference of the scores over twice their mean.
C21_GiniCoefficient ==
  result.op = "measure_information_asymmetry" =>
    LET g == result.gini_coefficient
        s == result.access_scores
        V == digraph.nodes
    IN /\ g[2] > 0 /\ 0 <= g[1] /\ g[1] <= g[2]
       /\ (V = {} \/ \A v \in V : s[v] = 0) => g[1] = 0
       /\ (\A v, w \in V : s[v] = s[w]) => g[1] = 0
       /\ (V # {} /\ \E v \in V : s[v] # 0) =>
            LET m == MeanDifferenceGini(V, s)
            IN g[1] * m[2] = m[1] * g[2]

\* A graph whose nodes have unequal access: the coefficient is strictly
\* between 0 and 1.
C21_Witness ==
  /\ result.op = "measure_information_asymmetry"
  /\ 0 < result.gini_coefficient[1]
  /\ result.gini_coefficient[1] < result.gini_coefficient[2]
  /\ \E v, w \in digraph.nodes :
       /\ result.access_scores[v] # result.access_scores[w]
       /\ w < v /\ result.access_scores[v] < result.access_scores[w]

\* C22: the exact frustration enumeration observes the cancellation signal
\* between bipartitions: once cancellation is signalled, the next step of the
\* call ends it with a cancelled failure, and no frustration value (a partial
\* result) is returned.
C22_CancellationObserved ==
  [][(pc = "exact" /\ cancelled) =>
       (pc' = "ready" /\ result'.error = "cancelled")]_vars

\* v and w are joined by an edge of d, in either direction.
Adjacent(d, v, w) == <<v, w>> \in d.edges \/ <<w, v>> \in d.edges

\* C24: detect_latent_subgraphs returns no trigger node and no activation
\* cascade, and every activation threshold is 1.0: no node of a latent
\* subgraph has a predecessor or a successor in the main component.
C24_NoTriggerNoCascade ==
  result.op = "detect_latent_subgraphs" =>
    /\ result.trigger_nodes = {}
    /\ result.activation_cascades = {}
    /\ \A k \in DOMAIN result.activation_thresholds :
         result.activation_thresholds[k] = <<1, 1>>
    /\ \A c \in result.latent_subgraphs : \A v \in c :
         \A m \in result.main_component : ~Adjacent(digraph, v, m)

\* A graph with a latent subgraph, whose nodes have successors, analysed
\* with threshold 0: a cascade from any of them would spread.
C24_Witness ==
  /\ result.op = "detect_latent_subgraphs"
  /\ result.latent_subgraphs # {}
  /\ DOMAIN result.activation_thresholds # {}
  /\ \E c \in result.latent_subgraphs : \E v \in c :
       Cardinality(ActivatedOf(SimulateCascade(digraph, v, <<0, 1>>,
                                               DefaultMaxSteps).waves)) > 1

\* c is a weakly-connected component of d: a non-empty set of nodes with no
\* edge to the rest of the graph that cannot be split into two parts with no
\* edge between them.
IsWeakComponent(d, c) ==
  /\ c # {}
  /\ c \subseteq d.nodes
  /\ \A v \in c : \A w \in d.nodes \ c : ~Adjacent(d, v, w)
  /\ \A A \in SUBSET c :
       (A # {} /\ A # c) => \E v \in A : \E w \in c \ A : Adjacent(d, v, w)

\* C25: latent_subgraphs is exactly the set of weakly-connected components,
\* other than the main component (a largest one), that have more than 2
\* nodes; trigger_nodes is exactly the set of their nodes with a predecessor
\* or a successor in the main component.
C25_LatentSubgraphsAndTriggers ==
  result.op = "detect_latent_subgraphs" =>
    LET V == digraph.nodes
        main == result.main_component
    IN /\ V # {} => /\ IsWeakComponent(digraph, main)
                    /\ \A c \in SUBSET V :
                         IsWeakComponent(digraph, c) => Cardinality(c) <= Cardinality(main)
       /\ result.latent_subgraphs =
            {c \in SUBSET V : /\ IsWeakComponent(digraph, c)
                              /\ c # main
                              /\ Cardinality(c) > 2}
       /\ result.trigger_nodes =
            {v \in UNION result.latent_subgraphs :
               \E m \in main : Adjacent(digraph, v, m)}

\* A graph with a latent subgraph beside a main component that is larger
\* than a component of two nodes.
C25_Witness ==
  /\ result.op = "detect_latent_subgraphs"
  /\ \E c \in result.latent_subgraphs : Cardinality(c) > 2 /\ c # result.main_component
  /\ Cardinality(result.main_component) > 2

\* The nodes of the waves 1..k of a cascade.
RECURSIVE WavesUpTo(_, _)
WavesUpTo(waves, k) == IF k = 0 THEN {} ELSE waves[k] \cup WavesUpTo(waves, k - 1)

\* C26: in a cascade of _simulate_cascade(start, theta) the first element is
\* start, no node appears twice, and every other node s was added in a wave
\* in which it was a successor of a node of the preceding wave and the share
\* of its predecessors activated in earlier waves, of its in-degree, was at
\* least theta.
C26_CascadeSafety ==
  (result.op = "_simulate_cascade" /\ result.error = "") =>
    LET waves == result.waves
        theta == result.threshold
    IN /\ waves[1] = {result.start_node}
       /\ \A i, j \in DOMAIN waves : i # j => waves[i] \cap waves[j] = {}
       /\ \A i \in DOMAIN waves : i > 1 =>
            \A s \in waves[i] :
              /\ \E p \in waves[i - 1] : <<p, s>> \in digraph.edges
              /\ Cardinality({e \in digraph.edges :
                                e[2] = s /\ e[1] \in WavesUpTo(waves, i - 1)}) * theta[2]
                   >= theta[1] * Cardinality({e \in digraph.edges : e[2] = s})

\* A cascade of three waves with threshold 1/2 whose last node has two
\* predecessors.
C26_Witness ==
  /\ result.op = "_simulate_cascade" /\ result.error = ""
  /\ result.threshold = <<1, 2>>
  /\ Len(result.waves) >= 3
  /\ \E s \in result.waves[3] :
       Cardinality({e \in digraph.edges : e[2] = s}) >= 2

\* v is within k directed steps of s.
RECURSIVE WithinSteps(_, _, _, _)
WithinSteps(d, s, v, k) ==
  \/ v = s
  \/ k > 0 /\ \E e \in d.edges : e[2] = v /\ e[1] # v /\ WithinSteps(d, s, e[1], k - 1)

\* C27: _simulate_cascade runs at most max_steps (by default 10) waves and
\* stops at the first wave that activates no node: the cascade has at most
\* max_steps waves after the start, none of them empty, it has exactly
\* max_steps of them when the loop was not left by an empty wave, and every
\* node of it is within max_steps directed steps of the start node.
C27_CascadeTerminates ==
  (result.op = "_simulate_cascade" /\ result.error = "") =>
    LET waves == result.waves
        n == Cardinality(digraph.nodes)
        reach == IF result.max_steps < n THEN result.max_steps ELSE n
    IN /\ Len(waves) - 1 <= result.max_steps
       /\ result.max_steps = DefaultMaxSteps => Len(waves) - 1 <= 10
       /\ \A i \in DOMAIN waves : waves[i] # {}
       /\ result.stopped = "max_steps" => Len(waves) - 1 = result.max_steps
       /\ \A i \in DOMAIN waves : \A v \in waves[i] :
            WithinSteps(digraph, result.start_node, v, reach)

\* The cap ends a cascade that a further wave would have extended.
C27_Witness ==
  /\ result.op = "_simulate_cascade" /\ result.error = ""
  /\ result.stopped = "max_steps"
  /\ \E p \in result.waves[Len(result.waves)] :
       \E s \in digraph.nodes \ ActivatedOf(result.waves) :
         /\ <<p, s>> \in digraph.edges
         /\ result.threshold = <<0, 1>>

\* C30: when _simulate_cascade stops because a wave activated no node, the
\* activated set is a fixed point of the activation rule: no node outside it
\* has an activated predecessor and a share of activated predecessors, of its
\* in-degree, of at least theta.
C30_CascadeFixedPoint ==
  (result.op = "_simulate_cascade" /\ result.error = ""
     /\ result.stopped = "empty_wave") =>
    LET A == WavesUpTo(result.waves, Len(result.waves))
        theta == result.threshold
    IN \A s \in digraph.nodes \ A :
         LET active == Cardinality({e \in digraph.edges : e[2] = s /\ e[1] \in A})
         IN ~(/\ active > 0
              /\ active * theta[2]
                   >= theta[1] * Cardinality({e \in digraph.edges : e[2] = s}))

\* A cascade that spread and then stopped at a node with an activated
\* predecessor whose share stays below the threshold.
C30_Witness ==
  /\ result.op = "_simulate_cascade" /\ result.error = ""
  /\ result.stopped = "empty_wave"
  /\ Len(result.waves) >= 2
  /\ \E s \in digraph.nodes \ ActivatedOf(result.waves) :
       \E p \in ActivatedOf(result.waves) : <<p, s>> \in digraph.edges

\* The critical junctions j of d such that w is a descendant (a node other
\* than s reached from s) of some successor s of j.
JunctionsAbove(d, w) ==
  {j \in d.nodes :
     /\ Cardinality({e \in d.edges : e[1] = j}) >= 2
     /\ \E e \in d.edges :
          e[1] = j /\ w # e[2] /\ WithinSteps(d, e[2], w, Cardinality(d.nodes))}

Representatives(g) ==
  {A \in SUBSET g.nodes : \A u \in g.nodes : (\A w \in g.nodes : u <= w) => u \notin A}

\* C29: _count_frustrated_edges(P) equals the frustrated-edge count of the
\* complement V \ P, and the exact enumeration over all 2^n masks returns
\* the minimum over one representative of each complementary pair.
C29_ComplementSymmetry ==
  /\ result.op = "_count_frustrated_edges" =>
       result.frustrated = FrustratedUnder(graph, graph.nodes \ result.partition)
  /\ (result.op = "compute_frustration_index" /\ NumberOfNodes(graph) # 0) =>
       /\ \E A \in Representatives(graph) :
            FrustratedUnder(graph, A) = result.frustration
       /\ \A A \in Representatives(graph) :
            FrustratedUnder(graph, A) >= result.frustration

\* A count for a part that is neither empty nor the whole node set, with a
\* frustrated positive edge across the parts and an unfrustrated negative one.
C29_Witness ==
  /\ result.op = "_count_frustrated_edges"
  /\ result.partition # {} /\ result.partition # graph.nodes
  /\ result.frustrated > 0
  /\ \E e \in Edges(graph) :
       /\ graph.data[e].sign = 1
       /\ e \cap result.partition # {} /\ e \ result.partition # {}
  /\ \E e \in Edges(graph) :
       /\ graph.data[e].sign = -1
       /\ e \cap result.partition # {} /\ e \ result.partition # {}

====
